---- MODULE Spec2Model ----
(***************************************************************************)
(* Article clustering and coverage-balance engine of unbiased-news.        *)
(*                                                                         *)
(* The parts of the repository that are modelled, one per value of `mode`: *)
(*   "cluster"   web/src/lib/clustering: TF-IDF similarity matrix,         *)
(*               UnionFind, clusterArticles, clusterIntoStories            *)
(*   "aggregate" src/core/aggregator: StoryAggregator.aggregate            *)
(*   "pipeline"  web/src/app/api/{cron,admin}/cluster and web/src/lib/db   *)
(*   "coverage"  src/core/aggregator: createStory over one cluster         *)
(*   "bias"      src/core/bias: BiasAnalyzer.analyze                       *)
(*                                                                         *)
(* Numbers: a cosine similarity is a non-negative real; the model keeps    *)
(* its square as the exact fraction [num, den], and compares squares.      *)
(***************************************************************************)
EXTENDS Integers, Sequences, FiniteSets, TLC

\* ------------------------------------------------------------------------
\* Bounds of the model
\* ------------------------------------------------------------------------

\* Largest batch handed to clusterArticles / clusterIntoStories.
MaxArticles == 4

\* Largest batch whose processing order is permuted.
MaxReordered == 3

\* Largest batch handed to StoryAggregator.aggregate.
MaxNews == 3

\* Largest number of articles in the article store of the cluster routes.
MaxStored == 3

\* Largest number of articles one source contributes to a cluster handed to
\* createStory on its own.
MaxPerSource == 1

\* Largest number of matches of one lexicon or pattern group in a text
\* handed to BiasAnalyzer.analyze.
MaxMatches == 25

\* Number of ids of a UnionFind driven by arbitrary union and find calls.
MaxIds == 5

\* Largest number of requests of the cluster routes served one after the
\* other.
MaxRequests == 2

\* Largest number of calls of prefetchSummary and getOrFetchSummary.
MaxCalls == 3

\* ------------------------------------------------------------------------
\* Generic helpers
\* ------------------------------------------------------------------------

Range(s) == {s[k] : k \in 1..Len(s)}

\* null / undefined
None == [none |-> TRUE]

RECURSIVE SumOver(_, _)
SumOver(S, f) ==
  IF S = {} THEN 0
  ELSE LET t == CHOOSE e \in S : TRUE IN f[t] + SumOver(S \ {t}, f)

\* Array.prototype.filter on a sequence, for a set of accepted elements.
RECURSIVE FilterSeq(_, _)
FilterSeq(s, keep) ==
  IF s = <<>> THEN <<>>
  ELSE IF Head(s) \in keep THEN <<Head(s)>> \o FilterSeq(Tail(s), keep)
  ELSE FilterSeq(Tail(s), keep)

\* ------------------------------------------------------------------------
\* web/src/lib/clustering/similarity.ts : vectors and the similarity matrix
\* ------------------------------------------------------------------------

\* Stemmed terms that survive preprocessText in the modelled batches.
Terms == {"senat", "budget"}

\* DocumentVector.vector: term -> tf-idf weight; weight 0 stands for "term
\* absent" (buildTfIdfVectors stores only weights > 0).  The pool holds an
\* empty vector (a stop-word-only document), two orthogonal documents, and
\* two documents that overlap with both.
VectorPool ==
  { [t \in Terms |-> 0],
    [t \in Terms |-> IF t = "senat" THEN 1 ELSE 0],
    [t \in Terms |-> IF t = "budget" THEN 1 ELSE 0],
    [t \in Terms |-> 1],
    [t \in Terms |-> IF t = "senat" THEN 4 ELSE 1] }

\* const SIMILARITY_THRESHOLD = 0.3, as the fraction 3/10.
SIMILARITY_THRESHOLD == [num |-> 3, den |-> 10]

\* const MIN_CLUSTER_SIZE = 2
MIN_CLUSTER_SIZE == 2

\* cosineSimilarity without `if (denom === 0) return 0`: 0 / 0 is NaN, kept
\* as a fraction of denominator 0.
cosineSimilarity_noZeroCheck(vec1, vec2) ==
  LET dotProduct == SumOver(Terms, [t \in Terms |-> vec1[t] * vec2[t]])
      norm1 == SumOver(Terms, [t \in Terms |-> vec1[t] * vec1[t]])
      norm2 == SumOver(Terms, [t \in Terms |-> vec2[t] * vec2[t]])
  IN [num |-> dotProduct * dotProduct, den |-> norm1 * norm2]

\* cosineSimilarity that answers 1 when the denominator is 0.
cosineSimilarity_zeroNormIsOne(vec1, vec2) ==
  LET dotProduct == SumOver(Terms, [t \in Terms |-> vec1[t] * vec2[t]])
      norm1 == SumOver(Terms, [t \in Terms |-> vec1[t] * vec1[t]])
      norm2 == SumOver(Terms, [t \in Terms |-> vec2[t] * vec2[t]])
  IN IF norm1 * norm2 = 0 THEN [num |-> 1, den |-> 1]
     ELSE [num |-> dotProduct * dotProduct, den |-> norm1 * norm2]

\* cosineSimilarity(vec1, vec2): dotProduct / (sqrt(norm1) * sqrt(norm2)),
\* and 0 when the denominator is 0.  The result is kept squared.
cosineSimilarity(vec1, vec2) ==
  LET dotProduct == SumOver(Terms, [t \in Terms |-> vec1[t] * vec2[t]])
      norm1 == SumOver(Terms, [t \in Terms |-> vec1[t] * vec1[t]])
      norm2 == SumOver(Terms, [t \in Terms |-> vec2[t] * vec2[t]])
  IN IF norm1 * norm2 = 0 THEN [num |-> 0, den |-> 1]
     ELSE [num |-> dotProduct * dotProduct, den |-> norm1 * norm2]

\* similarity >= threshold, on the squares of two non-negative numbers.
AtLeast(similarity, threshold) ==
  similarity.num * threshold.den * threshold.den
    >= threshold.num * threshold.num * similarity.den

\* calculateSimilarityMatrix that never fills the entries below the
\* diagonal.
calculateSimilarityMatrix_noMirror(vectors) ==
  LET n == Len(vectors)
      idx(id) == CHOOSE k \in 1..n : vectors[k].id = id
      ids == {vectors[k].id : k \in 1..n}
  IN [keys |-> [k \in 1..n |-> vectors[k].id],
      at |-> [a \in ids, b \in ids |->
                IF idx(a) = idx(b) THEN [num |-> 1, den |-> 1]
                ELSE IF idx(b) < idx(a) THEN [num |-> 0, den |-> 1]
                ELSE cosineSimilarity(vectors[idx(a)].vector,
                                      vectors[idx(b)].vector)]]

\* calculateSimilarityMatrix that computes the diagonal with
\* cosineSimilarity as well.
calculateSimilarityMatrix_diagonalComputed(vectors) ==
  LET n == Len(vectors)
      idx(id) == CHOOSE k \in 1..n : vectors[k].id = id
      ids == {vectors[k].id : k \in 1..n}
  IN [keys |-> [k \in 1..n |-> vectors[k].id],
      at |-> [a \in ids, b \in ids |->
                IF idx(b) < idx(a)
                THEN cosineSimilarity(vectors[idx(b)].vector,
                                      vectors[idx(a)].vector)
                ELSE cosineSimilarity(vectors[idx(a)].vector,
                                      vectors[idx(b)].vector)]]

\* calculateSimilarityMatrix(vectors): row i holds 1.0 on the diagonal, the
\* mirrored value of row j for j < i, and cosineSimilarity for j > i.  `keys`
\* is the insertion order of the rows (and of every row's entries).
calculateSimilarityMatrix(vectors) ==
  LET n == Len(vectors)
      idx(id) == CHOOSE k \in 1..n : vectors[k].id = id
      upper(i, j) == cosineSimilarity(vectors[i].vector, vectors[j].vector)
      ids == {vectors[k].id : k \in 1..n}
  IN [keys |-> [k \in 1..n |-> vectors[k].id],
      at |-> [a \in ids, b \in ids |->
                LET i == idx(a)
                    j == idx(b)
                IN IF i = j THEN [num |-> 1, den |-> 1]
                   ELSE IF j < i THEN upper(j, i)
                   ELSE upper(i, j)]]

\* findSimilarDocuments without the test `similarity >= threshold`.
findSimilarDocuments_noThreshold(docId, matrix, threshold) ==
  IF docId \notin Range(matrix.keys) THEN <<>>
  ELSE FilterSeq(matrix.keys, Range(matrix.keys) \ {docId})

\* findSimilarDocuments that also drops the ids of similarity 1.
findSimilarDocuments_belowOne(docId, matrix, threshold) ==
  IF docId \notin Range(matrix.keys) THEN <<>>
  ELSE FilterSeq(matrix.keys,
         {otherId \in Range(matrix.keys) :
            /\ otherId # docId
            /\ AtLeast(matrix.at[docId, otherId], threshold)
            /\ matrix.at[docId, otherId].num < matrix.at[docId, otherId].den})

\* findSimilarDocuments(docId, matrix, threshold): the other ids of the row,
\* in row order, whose similarity is >= threshold.
findSimilarDocuments(docId, matrix, threshold) ==
  IF docId \notin Range(matrix.keys) THEN <<>>
  ELSE FilterSeq(matrix.keys,
         {otherId \in Range(matrix.keys) :
            otherId # docId /\ AtLeast(matrix.at[docId, otherId], threshold)})

\* ------------------------------------------------------------------------
\* web/src/lib/clustering/similarity.ts : class UnionFind
\* ------------------------------------------------------------------------

\* constructor(ids): every id is its own parent, with rank 0.
NewUnionFind(ids) ==
  [parent |-> [id \in Range(ids) |-> id],
   rank |-> [id \in Range(ids) |-> 0],
   ids |-> ids]

\* find(x) whose path compression also resets the rank of the id it
\* re-points.
RECURSIVE find_resetsRank(_, _)
find_resetsRank(u, x) ==
  IF u.parent[x] # x
  THEN LET r == find_resetsRank(u, u.parent[x])
       IN [uf |-> [r.uf EXCEPT !.parent[x] = r.root, !.rank[r.root] = 0],
           root |-> r.root]
  ELSE [uf |-> u, root |-> x]

\* find(x), with path compression; returns the root and the updated object.
RECURSIVE find(_, _)
find(u, x) ==
  IF u.parent[x] # x
  THEN LET r == find(u, u.parent[x])
       IN [uf |-> [r.uf EXCEPT !.parent[x] = r.root], root |-> r.root]
  ELSE [uf |-> u, root |-> x]

\* union without the branch for roots of equal rank.
union_noEqualRankCase(u, x, y) ==
  LET fx == find(u, x)
      fy == find(fx.uf, y)
      rootX == fx.root
      rootY == fy.root
      v == fy.uf
      rankX == v.rank[rootX]
      rankY == v.rank[rootY]
  IN IF rootX = rootY THEN v
     ELSE IF rankX < rankY THEN [v EXCEPT !.parent[rootX] = rootY]
     ELSE IF rankX > rankY THEN [v EXCEPT !.parent[rootY] = rootX]
     ELSE v

\* union without the two branches for roots of different rank.
union_onlyEqualRank(u, x, y) ==
  LET fx == find(u, x)
      fy == find(fx.uf, y)
      rootX == fx.root
      rootY == fy.root
      v == fy.uf
      rankX == v.rank[rootX]
      rankY == v.rank[rootY]
  IN IF rootX = rootY THEN v
     ELSE IF rankX = rankY
     THEN [v EXCEPT !.parent[rootY] = rootX, !.rank[rootX] = rankX + 1]
     ELSE v

\* union that attaches the root of y under the root of x whatever the
\* ranks are.
union_ignoresRank(u, x, y) ==
  LET fx == find(u, x)
      fy == find(fx.uf, y)
      rootX == fx.root
      rootY == fy.root
      v == fy.uf
      rankX == v.rank[rootX]
      rankY == v.rank[rootY]
  IN IF rootX = rootY THEN v
     ELSE IF rankX = rankY
     THEN [v EXCEPT !.parent[rootY] = rootX, !.rank[rootX] = rankX + 1]
     ELSE [v EXCEPT !.parent[rootY] = rootX]

\* union(x, y), by rank.
union(u, x, y) ==
  LET fx == find(u, x)
      fy == find(fx.uf, y)
      rootX == fx.root
      rootY == fy.root
      v == fy.uf
      rankX == v.rank[rootX]
      rankY == v.rank[rootY]
  IN IF rootX = rootY THEN v
     ELSE IF rankX < rankY THEN [v EXCEPT !.parent[rootX] = rootY]
     ELSE IF rankX > rankY THEN [v EXCEPT !.parent[rootY] = rootX]
     ELSE [v EXCEPT !.parent[rootY] = rootX, !.rank[rootX] = rankX + 1]

\* Map.set(root, [...members, id]) on a Map kept as a sequence of entries in
\* insertion order.
PushMember(clusters, root, id) ==
  IF \E k \in 1..Len(clusters) : clusters[k].root = root
  THEN [k \in 1..Len(clusters) |->
          IF clusters[k].root = root
          THEN [clusters[k] EXCEPT !.ids = Append(@, id)]
          ELSE clusters[k]]
  ELSE Append(clusters, [root |-> root, ids |-> <<id>>])

\* getClusters(): for every id of the parent map, in insertion order, push
\* the id onto the list of its root.
RECURSIVE getClustersFrom(_, _, _)
getClustersFrom(u, k, clusters) ==
  IF k > Len(u.ids) THEN clusters
  ELSE LET f == find(u, u.ids[k])
       IN getClustersFrom(f.uf, k + 1, PushMember(clusters, f.root, u.ids[k]))

getClusters(u) == getClustersFrom(u, 1, <<>>)

\* ------------------------------------------------------------------------
\* web/src/lib/clustering/similarity.ts : clusterArticles, clusterIntoStories
\* ------------------------------------------------------------------------

\* buildTfIdfVectors(documents): one DocumentVector per document, in order.
\* The tf-idf weights of a document are carried by the article record.
buildTfIdfVectors(documents) ==
  [k \in 1..Len(documents) |->
     [id |-> documents[k].id, vector |-> documents[k].vector]]

\* The calls uf.union(article.id, otherId) of the double loop of
\* clusterArticles, in the order the loop makes them.
RECURSIVE unionCallsFrom(_, _, _)
unionCallsFrom(batch, matrix, i) ==
  IF i > Len(batch) THEN <<>>
  ELSE LET similar == findSimilarDocuments(batch[i].id, matrix,
                                           SIMILARITY_THRESHOLD)
       IN [j \in 1..Len(similar) |-> <<batch[i].id, similar[j]>>]
            \o unionCallsFrom(batch, matrix, i + 1)

unionCalls(batch, matrix) == unionCallsFrom(batch, matrix, 1)

RECURSIVE applyUnions(_, _)
applyUnions(u, calls) ==
  IF calls = <<>> THEN u
  ELSE applyUnions(union(u, Head(calls)[1], Head(calls)[2]), Tail(calls))

\* filterClusters without the MIN_CLUSTER_SIZE test.
filterClusters_noMinimum(batch, u) ==
  LET all == getClusters(u)
      articleMap(id) == batch[CHOOSE k \in 1..Len(batch) : batch[k].id = id]
  IN [c \in 1..Len(all) |->
        [clusterId |-> all[c].root,
         articles |-> [m \in 1..Len(all[c].ids) |-> articleMap(all[c].ids[m])]]]

\* The tail of clusterArticles: getClusters, then keep the clusters of at
\* least MIN_CLUSTER_SIZE ids, mapped back to the articles.
filterClusters(batch, u) ==
  LET all == getClusters(u)
      articleMap(id) == batch[CHOOSE k \in 1..Len(batch) : batch[k].id = id]
      kept == FilterSeq(all, {c \in Range(all) : Len(c.ids) >= MIN_CLUSTER_SIZE})
  IN [c \in 1..Len(kept) |->
        [clusterId |-> kept[c].root,
         articles |-> [m \in 1..Len(kept[c].ids) |-> articleMap(kept[c].ids[m])]]]

\* clusterArticles(articles) as one function of the batch.
clusterArticles(batch) ==
  IF Len(batch) = 0 THEN <<>>
  ELSE LET matrix == calculateSimilarityMatrix(buildTfIdfVectors(batch))
           u == NewUnionFind([k \in 1..Len(batch) |-> batch[k].id])
       IN filterClusters(batch, applyUnions(u, unionCalls(batch, matrix)))

\* Map.set(key, val) on a Map kept as a sequence of entries.
MapSet(m, key, val) ==
  IF \E k \in 1..Len(m) : m[k].key = key
  THEN [k \in 1..Len(m) |-> IF m[k].key = key THEN [key |-> key, val |-> val]
                            ELSE m[k]]
  ELSE Append(m, [key |-> key, val |-> val])

\* createStoryFromCluster(articles): the Story of a cluster, under the id
\* generateStoryId() returned (time and random based: taken to be fresh).
\* Source.url stands for the article it was made from: an Article's id is
\* derived from its url.
createStoryFromCluster(members, id) ==
  [id |-> id,
   sources |-> [m \in 1..Len(members) |->
                  [name |-> members[m].source, url |-> members[m].id]]]

\* The loop of clusterIntoStories over the clusters, from cluster c on.
RECURSIVE storiesFrom(_, _, _, _)
storiesFrom(found, c, counter, acc) ==
  IF c > Len(found) THEN acc
  ELSE LET story == createStoryFromCluster(found[c].articles, counter + c)
           articleIds == [m \in 1..Len(found[c].articles) |->
                            found[c].articles[m].id]
       IN storiesFrom(found, c + 1, counter,
            [stories |-> Append(acc.stories, story),
             clusteredArticleIds |->
               MapSet(acc.clusteredArticleIds, story.id, articleIds),
             clusteredSet |-> acc.clusteredSet \cup Range(articleIds)])

\* storiesOfClusters that reports every id of the batch as unclustered.
storiesOfClusters_allUnclustered(batch, found, counter) ==
  LET r == storiesFrom(found, 1, counter,
             [stories |-> <<>>, clusteredArticleIds |-> <<>>,
              clusteredSet |-> {}])
  IN [stories |-> r.stories,
      clusteredArticleIds |-> r.clusteredArticleIds,
      unclusteredIds |-> [k \in 1..Len(batch) |-> batch[k].id]]

\* clusterIntoStories, given the clusters clusterArticles(articles) found.
\* `counter` is the number of story ids generated so far.
storiesOfClusters(batch, found, counter) ==
  LET r == storiesFrom(found, 1, counter,
             [stories |-> <<>>, clusteredArticleIds |-> <<>>,
              clusteredSet |-> {}])
      ids == [k \in 1..Len(batch) |-> batch[k].id]
  IN [stories |-> r.stories,
      clusteredArticleIds |-> r.clusteredArticleIds,
      unclusteredIds |-> FilterSeq(ids, Range(ids) \ r.clusteredSet)]

clusterIntoStories(batch, counter) ==
  storiesOfClusters(batch, clusterArticles(batch), counter)

\* ------------------------------------------------------------------------
\* src/core/aggregator/story-aggregator.ts
\* ------------------------------------------------------------------------

\* The articles of the aggregator come with one of three contents.  A
\* content gives NewsArticle.entities as the article arrives (empty when
\* nothing filled it in yet) and what its text yields: the lower-cased
\* entity texts of extractEntities(title + summary), the
\* extractKeywords(title + summary) list, and the words of the lower-cased
\* title.  "budget" is similar to
\* "senate" and to "veto", which are not similar to each other.
Contents ==
  [senate |-> [entities |-> {},
               textEntities |-> {"senate"},
               keywords |-> {"senate", "budget", "bill"},
               titleWords |-> {"senate", "passes", "budget", "bill"}],
   budget |-> [entities |-> {"senate", "white house"},
               textEntities |-> {"senate", "white house"},
               keywords |-> {"budget", "bill", "veto"},
               titleWords |-> {"budget", "bill", "faces", "veto"}],
   veto   |-> [entities |-> {},
               textEntities |-> {"white house"},
               keywords |-> {"veto", "threat"},
               titleWords |-> {"veto", "threat", "looms"}]]

ContentNames == {"senate", "budget", "veto"}

\* NewsArticle.sourceId of the modelled batches.
NewsSources == {"ap", "fox"}

\* NewsArticle.publishedAt, in hours.
PublishTimes == {0, 24}

\* ALL_SOURCES: knownBias of the sources used, in hundredths (createBias).
Registry ==
  [ap      |-> [politicalLean |-> 0, sensationalism |-> 10,
                factualAccuracy |-> 95, opinionMixing |-> 10, transparency |-> 90],
   reuters |-> [politicalLean |-> 0, sensationalism |-> 10,
                factualAccuracy |-> 95, opinionMixing |-> 10, transparency |-> 90],
   nyt     |-> [politicalLean |-> -25, sensationalism |-> 20,
                factualAccuracy |-> 85, opinionMixing |-> 40, transparency |-> 80],
   wsj     |-> [politicalLean |-> 25, sensationalism |-> 20,
                factualAccuracy |-> 85, opinionMixing |-> 50, transparency |-> 80],
   wapo    |-> [politicalLean |-> -25, sensationalism |-> 30,
                factualAccuracy |-> 85, opinionMixing |-> 40, transparency |-> 80],
   cnn     |-> [politicalLean |-> -50, sensationalism |-> 50,
                factualAccuracy |-> 75, opinionMixing |-> 60, transparency |-> 60],
   fox     |-> [politicalLean |-> 50, sensationalism |-> 60,
                factualAccuracy |-> 65, opinionMixing |-> 70, transparency |-> 50],
   msnbc   |-> [politicalLean |-> -50, sensationalism |-> 60,
                factualAccuracy |-> 70, opinionMixing |-> 75, transparency |-> 50]]

\* The dimensions of BiasIndicators.
Dimensions == {"politicalLean", "sensationalism", "factualAccuracy",
               "opinionMixing", "transparency"}

\* getSource(id): the registry entry, or None for an unknown id.
getSource(id) == IF id \in DOMAIN Registry THEN Registry[id] ELSE None

\* extractEntities(`${title} ${summary}`), as the set of entity texts.
extractEntities(article) == Contents[article.content].textEntities

\* The Jaccard terms of calculateSimilarity: intersection size over union
\* size, and 0 for an empty union; as a fraction.
Jaccard(A, B) ==
  IF A \cup B = {} THEN [num |-> 0, den |-> 1]
  ELSE [num |-> Cardinality(A \cap B), den |-> Cardinality(A \cup B)]

\* calculateSimilarity(a, b) =
\*   entitySimilarity * 0.4 + keywordSimilarity * 0.35 + titleSimilarity * 0.25
\* in hundredths, as a fraction.
calculateSimilarity(a, b) ==
  LET aEntities == IF a.entities # {} THEN a.entities ELSE extractEntities(a)
      bEntities == IF b.entities # {} THEN b.entities ELSE extractEntities(b)
      e == Jaccard(aEntities, bEntities)
      k == Jaccard(Contents[a.content].keywords, Contents[b.content].keywords)
      t == Jaccard(Contents[a.content].titleWords,
                   Contents[b.content].titleWords)
  IN [num |-> 40 * e.num * k.den * t.den + 35 * k.num * e.den * t.den
                + 25 * t.num * e.den * k.den,
      den |-> e.den * k.den * t.den]

\* [...articles].sort((a, b) => b.publishedAt - a.publishedAt): a stable
\* sort, newest first.
RECURSIVE sortNewestFirst(_)
sortNewestFirst(s) ==
  IF s = <<>> THEN <<>>
  ELSE LET rest == sortNewestFirst(Tail(s))
           before == {k \in 1..Len(rest) :
                        rest[k].publishedAt > Head(s).publishedAt}
       IN [k \in 1..Len(s) |->
             IF k \in before THEN rest[k]
             ELSE IF k = Cardinality(before) + 1 THEN Head(s)
             ELSE rest[k - 1]]

\* collectSimilar without `if (assigned.has(candidate.id)) continue`.
RECURSIVE collectSimilar_noAssignedCheck(_, _, _, _, _)
collectSimilar_noAssignedCheck(cfg, sorted, article, c, acc) ==
  IF c > Len(sorted) THEN acc
  ELSE LET candidate == sorted[c]
           similarity == calculateSimilarity(article, candidate)
       IN IF candidate.sourceId = article.sourceId
          THEN collectSimilar_noAssignedCheck(cfg, sorted, article, c + 1, acc)
          ELSE IF similarity.num >= cfg.similarityThreshold * similarity.den
          THEN collectSimilar_noAssignedCheck(cfg, sorted, article, c + 1,
                 [cluster |-> Append(acc.cluster, candidate),
                  assigned |-> acc.assigned \cup {candidate.id}])
          ELSE collectSimilar_noAssignedCheck(cfg, sorted, article, c + 1, acc)

\* The inner loop of clusterArticles without the check of the candidate's
\* source.
RECURSIVE collectSimilar_anySource(_, _, _, _, _)
collectSimilar_anySource(cfg, sorted, article, c, acc) ==
  IF c > Len(sorted) THEN acc
  ELSE LET candidate == sorted[c]
           similarity == calculateSimilarity(article, candidate)
       IN IF candidate.id \in acc.assigned
          THEN collectSimilar_anySource(cfg, sorted, article, c + 1, acc)
          ELSE IF similarity.num >= cfg.similarityThreshold * similarity.den
          THEN collectSimilar_anySource(cfg, sorted, article, c + 1,
                 [cluster |-> Append(acc.cluster, candidate),
                  assigned |-> acc.assigned \cup {candidate.id}])
          ELSE collectSimilar_anySource(cfg, sorted, article, c + 1, acc)

\* The inner loop of StoryAggregator.clusterArticles for the seed `article`,
\* from candidate c on.
RECURSIVE collectSimilar(_, _, _, _, _)
collectSimilar(cfg, sorted, article, c, acc) ==
  IF c > Len(sorted) THEN acc
  ELSE LET candidate == sorted[c]
           similarity == calculateSimilarity(article, candidate)
       IN IF candidate.id \in acc.assigned
          THEN collectSimilar(cfg, sorted, article, c + 1, acc)
          ELSE IF candidate.sourceId = article.sourceId
          THEN collectSimilar(cfg, sorted, article, c + 1, acc)
          ELSE IF similarity.num >= cfg.similarityThreshold * similarity.den
          THEN collectSimilar(cfg, sorted, article, c + 1,
                 [cluster |-> Append(acc.cluster, candidate),
                  assigned |-> acc.assigned \cup {candidate.id}])
          ELSE collectSimilar(cfg, sorted, article, c + 1, acc)

\* The outer loop of StoryAggregator.clusterArticles, from position s on.
RECURSIVE greedyClusters(_, _, _, _, _)
greedyClusters(cfg, sorted, s, found, assigned) ==
  IF s > Len(sorted) THEN found
  ELSE IF sorted[s].id \in assigned
  THEN greedyClusters(cfg, sorted, s + 1, found, assigned)
  ELSE LET r == collectSimilar(cfg, sorted, sorted[s], 1,
                  [cluster |-> <<sorted[s]>>,
                   assigned |-> assigned \cup {sorted[s].id}])
       IN greedyClusters(cfg, sorted, s + 1,
            IF Len(r.cluster) >= cfg.minArticlesPerStory
            THEN Append(found, r.cluster) ELSE found,
            r.assigned)

\* StoryAggregator.clusterArticles(articles)
StoryAggregator_clusterArticles(cfg, batch) ==
  greedyClusters(cfg, sortNewestFirst(batch), 1, <<>>, {})

\* analyzeCoverage with sourceCount = articles.length.
analyzeCoverage_countsArticles(members) ==
  [sourceCount |-> Len(members),
   leanDistribution |-> [left |-> 0, center |-> 0, right |-> 0],
   coverageBalance |-> "limited"]

\* average without `if (nums.length === 0) return 0`: 0 / 0 is NaN, kept as
\* a fraction of denominator 0.
average_noEmptyCheck(nums) ==
  [num |-> SumOver(1..Len(nums), [k \in 1..Len(nums) |-> nums[k]]),
   den |-> Len(nums)]

\* average(nums): 0 for the empty list, else the sum over the length, kept
\* as the fraction [num, den].
average(nums) ==
  IF Len(nums) = 0 THEN [num |-> 0, den |-> 1]
  ELSE [num |-> SumOver(1..Len(nums), [k \in 1..Len(nums) |-> nums[k]]),
        den |-> Len(nums)]

\* analyzeCoverage that puts a member of an unknown source in the centre
\* bucket.
analyzeCoverage_unknownIsCenter(members) ==
  LET sources == {members[m].sourceId : m \in 1..Len(members)}
      sourceCount == Cardinality(sources)
      known == {m \in 1..Len(members) : getSource(members[m].sourceId) # None}
      lean(m) == getSource(members[m].sourceId).politicalLean
      left == Cardinality({m \in known : lean(m) < -20})
      right == Cardinality({m \in known : ~(lean(m) < -20) /\ lean(m) > 20})
      center == Len(members) - left - right
      resolved == FilterSeq([m \in 1..Len(members) |-> m], known)
      biasScores == [k \in 1..Len(resolved) |->
                       getSource(members[resolved[k]].sourceId)]
  IN [sourceCount |-> sourceCount,
      leanDistribution |-> [left |-> left, center |-> center, right |-> right],
      averageBias |->
        [d \in Dimensions |->
           average([k \in 1..Len(biasScores) |-> biasScores[k][d]])],
      coverageBalance |->
        IF sourceCount < 3 THEN "limited"
        ELSE IF left > right * 2 THEN "left-heavy"
        ELSE IF right > left * 2 THEN "right-heavy"
        ELSE "balanced"]

\* analyzeCoverage that calls a side heavy only when the other side has
\* members.
analyzeCoverage_needsOppositeSide(members) ==
  LET sources == {members[m].sourceId : m \in 1..Len(members)}
      sourceCount == Cardinality(sources)
      known == {m \in 1..Len(members) : getSource(members[m].sourceId) # None}
      lean(m) == getSource(members[m].sourceId).politicalLean
      left == Cardinality({m \in known : lean(m) < -20})
      right == Cardinality({m \in known : ~(lean(m) < -20) /\ lean(m) > 20})
      center == Cardinality(known) - left - right
  IN [sourceCount |-> sourceCount,
      leanDistribution |-> [left |-> left, center |-> center, right |-> right],
      averageBias |-> [d \in Dimensions |-> [num |-> 0, den |-> 1]],
      coverageBalance |->
        IF sourceCount < 3 THEN "limited"
        ELSE IF right > 0 /\ left > right * 2 THEN "left-heavy"
        ELSE IF left > 0 /\ right > left * 2 THEN "right-heavy"
        ELSE "balanced"]

\* StoryAggregator.analyzeCoverage(articles): sourceCount, leanDistribution,
\* averageBias and coverageBalance.
analyzeCoverage(members) ==
  LET sources == {members[m].sourceId : m \in 1..Len(members)}
      sourceCount == Cardinality(sources)
      known == {m \in 1..Len(members) : getSource(members[m].sourceId) # None}
      lean(m) == getSource(members[m].sourceId).politicalLean
      left == Cardinality({m \in known : lean(m) < -20})
      right == Cardinality({m \in known : ~(lean(m) < -20) /\ lean(m) > 20})
      center == Cardinality(known) - left - right
      resolved == FilterSeq([m \in 1..Len(members) |-> m], known)
      biasScores == [k \in 1..Len(resolved) |->
                       getSource(members[resolved[k]].sourceId)]
  IN [sourceCount |-> sourceCount,
      leanDistribution |-> [left |-> left, center |-> center, right |-> right],
      averageBias |->
        [d \in Dimensions |->
           average([k \in 1..Len(biasScores) |-> biasScores[k][d]])],
      coverageBalance |->
        IF sourceCount < 3 THEN "limited"
        ELSE IF left > right * 2 THEN "left-heavy"
        ELSE IF right > left * 2 THEN "right-heavy"
        ELSE "balanced"]

\* StoryAggregator.createStory(articles): the id comes from the first
\* article.
createStory(members) ==
  [id |-> <<"story", members[1].id>>,
   articles |-> members,
   coverageAnalysis |-> analyzeCoverage(members)]

\* stories.sort((a, b) => b.sourceCount - a.sourceCount): a stable sort,
\* most sources first.
RECURSIVE sortBySourceCount(_)
sortBySourceCount(s) ==
  IF s = <<>> THEN <<>>
  ELSE LET rest == sortBySourceCount(Tail(s))
           before == {k \in 1..Len(rest) :
                        rest[k].coverageAnalysis.sourceCount
                          > Head(s).coverageAnalysis.sourceCount}
       IN [k \in 1..Len(s) |->
             IF k \in before THEN rest[k]
             ELSE IF k = Cardinality(before) + 1 THEN Head(s)
             ELSE rest[k - 1]]

\* The articles of the batch inside the time window at time `clock`:
\* articles.filter(a => a.publishedAt >= cutoff).
recentArticles(cfg, batch, clock) ==
  FilterSeq(batch, {a \in Range(batch) :
                      a.publishedAt >= clock - cfg.timeWindowHours})

\* The enrichment loop of aggregate: an article without entities gets the
\* entities of its text.
enrich(article) ==
  IF article.entities = {}
  THEN [article EXCEPT !.entities = extractEntities(article)]
  ELSE article

\* StoryAggregator.aggregate(articles) at time `clock`: the stories it
\* returns and the batch as the enrichment loop leaves it.
aggregate(cfg, batch, clock) ==
  LET recentIds == {a.id : a \in Range(recentArticles(cfg, batch, clock))}
      enriched == [k \in 1..Len(batch) |->
                     IF batch[k].id \in recentIds THEN enrich(batch[k])
                     ELSE batch[k]]
      found == StoryAggregator_clusterArticles(cfg,
                 recentArticles(cfg, enriched, clock))
      kept == FilterSeq(found, {c \in Range(found) :
                                  ~(Len(c) < cfg.minArticlesPerStory)})
  IN [stories |-> sortBySourceCount([c \in 1..Len(kept) |-> createStory(kept[c])]),
      articles |-> enriched]

\* ------------------------------------------------------------------------
\* BiasAnalyzer (core/bias/analyzer)
\* ------------------------------------------------------------------------

\* The greatest common divisor of two naturals.
RECURSIVE GCD(_, _)
GCD(a, b) == IF b = 0 THEN a ELSE GCD(b, a % b)

\* A number as the fraction [num, den], den > 0, in lowest terms.
Frac(n, d) ==
  LET g == GCD(IF n < 0 THEN -n ELSE n, d)
  IN IF g = 0 THEN [num |-> n, den |-> d]
     ELSE [num |-> n \div g, den |-> d \div g]

\* Math.min(1, x) for a fraction x of positive denominator.
MinWithOne(x) == IF x.num > x.den THEN Frac(1, 1) ELSE x

\* detectPoliticalLean: leftScore and rightScore are the numbers of matches
\* of LOADED_LANGUAGE.left and .right in the text.
detectPoliticalLean(leftScore, rightScore) ==
  LET total == leftScore + rightScore
  IN IF total = 0 THEN Frac(0, 1) ELSE Frac(rightScore - leftScore, total)

\* detectSensationalism: 0.5 per match of LOADED_LANGUAGE.sensational, plus
\* the clickbait patterns of the title, over maxScore 10; in halves.
detectSensationalism(matches, title) ==
  LET score == matches
               + (IF title.exclamation THEN 2 ELSE 0)
               + (IF title.shortQuestion THEN 1 ELSE 0)
               + (IF title.listicle THEN 2 ELSE 0)
               + (IF title.addressesYou THEN 3 ELSE 0)
               + (IF title.upperCase THEN 4 ELSE 0)
  IN MinWithOne(Frac(score, 20))

\* detectOpinionMixing: 0.5 per match of OPINION_INDICATORS over
\* maxScore = Math.max(5, textLength / 500).
detectOpinionMixing(matches, textLength) ==
  MinWithOne(Frac(matches * 250,
                  IF textLength > 2500 THEN textLength ELSE 2500))

\* detectTransparency without Math.min(1, ...).
detectTransparency_noCap(matches) == Frac(matches, 5)

\* detectTransparency: 1 per match of WEAK_ATTRIBUTION over maxScore 5.
detectTransparency(matches) == MinWithOne(Frac(matches, 5))

\* source.knownBias as fractions.
knownBias(source) == [d \in Dimensions |-> Frac(source[d], 100)]

\* The text of an article is described by its matches: per lexicon, the
\* runs [phrase, times] of matched phrases in the order of the text.
\* Two terms of each list of LOADED_LANGUAGE, in the order of the list.
LOADED_LANGUAGE ==
  [left |-> <<"racist", "fascist">>,
   right |-> <<"socialist", "woke">>,
   sensational |-> <<"shocking", "bombshell">>]

\* Two patterns of OPINION_INDICATORS, each as the phrases it matches.
OPINION_INDICATORS == << {"clearly", "obviously"}, {"should", "must"} >>

\* Two patterns of WEAK_ATTRIBUTION, each as the phrases it matches.
WEAK_ATTRIBUTION == << {"sources say", "sources claim"}, {"some say"} >>

\* text.match(pattern): the runs of the phrases of `pattern`, in text order.
match(runs, pattern) ==
  FilterSeq(runs, {r \in Range(runs) : r.phrase \in pattern})

\* matches.length of text.match(pattern); 0 when match returned null.
RECURSIVE matchesLength(_)
matchesLength(matches) ==
  IF matches = <<>> THEN 0
  ELSE Head(matches).times + matchesLength(Tail(matches))

\* new RegExp(term, 'gi') for each term of a list of LOADED_LANGUAGE.
termPatterns(terms) == [k \in 1..Len(terms) |-> {terms[k]}]

\* The score a loop over `patterns` adds up: matches.length of each.
RECURSIVE totalMatches(_, _)
totalMatches(runs, patterns) ==
  IF patterns = <<>> THEN 0
  ELSE matchesLength(match(runs, Head(patterns)))
       + totalMatches(runs, Tail(patterns))

\* The evidence.push calls of a loop over the terms of LOADED_LANGUAGE:
\* one entry per term that matched, whose text is the term.
RECURSIVE termEvidence(_, _, _, _, _)
termEvidence(cfg, runs, terms, indicatorType, explanation) ==
  IF terms = <<>> THEN <<>>
  ELSE (IF match(runs, {Head(terms)}) # <<>> /\ cfg.includeEvidence
        THEN << [text |-> Head(terms), indicatorType |-> indicatorType,
                 explanation |-> <<explanation, Head(terms)>>] >>
        ELSE <<>>)
       \o termEvidence(cfg, runs, Tail(terms), indicatorType, explanation)

\* The evidence.push calls of a loop over regular expressions: one entry
\* per pattern that matched, whose text is matches[0].
RECURSIVE patternEvidence(_, _, _, _, _)
patternEvidence(cfg, runs, patterns, indicatorType, explanation) ==
  IF patterns = <<>> THEN <<>>
  ELSE LET matches == match(runs, Head(patterns))
       IN (IF matches # <<>> /\ cfg.includeEvidence
           THEN << [text |-> matches[1].phrase, indicatorType |-> indicatorType,
                    explanation |-> <<explanation, matches[1].phrase>>] >>
           ELSE <<>>)
          \o patternEvidence(cfg, runs, Tail(patterns), indicatorType,
                             explanation)

\* What the four detect calls of analyzeHeuristic push to `evidence`, in
\* the order of the calls.
collectEvidence(cfg, article) ==
  termEvidence(cfg, article.leftTerms, LOADED_LANGUAGE.left,
               "politicalLean", "Left-leaning framing")
  \o termEvidence(cfg, article.rightTerms, LOADED_LANGUAGE.right,
                  "politicalLean", "Right-leaning framing")
  \o termEvidence(cfg, article.sensationalTerms, LOADED_LANGUAGE.sensational,
                  "sensationalism", "Sensational language")
  \o patternEvidence(cfg, article.opinionMatches, OPINION_INDICATORS,
                     "opinionMixing", "Opinion indicator")
  \o patternEvidence(cfg, article.weakAttributions, WEAK_ATTRIBUTION,
                     "transparency", "Weak attribution")

\* x <= y, x < y for fractions of positive denominator.
AtMost(x, y) == x.num * y.den <= y.num * x.den
Below(x, y) == x.num * y.den < y.num * x.den

\* leanToLabel(lean)
leanToLabel(lean) ==
  IF AtMost(lean, Frac(-6, 10)) THEN "Far Left"
  ELSE IF AtMost(lean, Frac(-3, 10)) THEN "Left"
  ELSE IF AtMost(lean, Frac(-1, 10)) THEN "Lean Left"
  ELSE IF AtMost(Frac(6, 10), lean) THEN "Far Right"
  ELSE IF AtMost(Frac(3, 10), lean) THEN "Right"
  ELSE IF AtMost(Frac(1, 10), lean) THEN "Lean Right"
  ELSE "Center"

\* generateSummary(indicators): the parts it joins.
generateSummary(indicators) ==
  << <<"Political lean", leanToLabel(indicators.politicalLean)>> >>
  \o (IF Below(Frac(6, 10), indicators.sensationalism)
      THEN << <<"High sensationalism detected">> >>
      ELSE IF Below(Frac(3, 10), indicators.sensationalism)
      THEN << <<"Moderate sensationalism">> >>
      ELSE <<>>)
  \o (IF Below(Frac(5, 10), indicators.opinionMixing)
      THEN << <<"Opinion mixed with news">> >> ELSE <<>>)
  \o (IF Below(indicators.transparency, Frac(5, 10))
      THEN << <<"Weak source attribution">> >> ELSE <<>>)

\* createUnknownAnalysis(reason)
createUnknownAnalysis(reason) ==
  [indicators |-> [d \in Dimensions |->
                     IF d = "politicalLean" THEN Frac(0, 1) ELSE Frac(1, 2)],
   confidence |-> Frac(1, 10),
   summary |-> << <<"Unable to analyze", reason>> >>,
   evidence |-> <<>>,
   method |-> "static"]

\* analyzeStatic(article, source)
analyzeStatic(article, source) ==
  IF source = None
  THEN createUnknownAnalysis("Source not found in registry")
  ELSE [indicators |-> knownBias(source),
        confidence |-> Frac(6, 10),
        summary |-> << <<"Based on historical bias profile", article.sourceId>>,
                       <<"Political lean",
                         leanToLabel(knownBias(source).politicalLean)>> >>,
        evidence |-> <<>>,
        method |-> "static"]

\* analyzeHeuristic(article, source); transparency is
\* 1 - detectTransparency and factualAccuracy the source's, or 0.7;
\* confidence is Math.min(0.9, 0.5 + (textLength / 5000) * 0.4).
analyzeHeuristic(cfg, article, source) ==
  LET weak == detectTransparency(
                totalMatches(article.weakAttributions, WEAK_ATTRIBUTION))
      indicators ==
        [politicalLean |->
           detectPoliticalLean(
             totalMatches(article.leftTerms, termPatterns(LOADED_LANGUAGE.left)),
             totalMatches(article.rightTerms, termPatterns(LOADED_LANGUAGE.right))),
         sensationalism |->
           detectSensationalism(
             totalMatches(article.sensationalTerms,
                          termPatterns(LOADED_LANGUAGE.sensational)),
             article.title),
         factualAccuracy |-> IF source = None THEN Frac(7, 10)
                             ELSE Frac(source.factualAccuracy, 100),
         opinionMixing |->
           detectOpinionMixing(
             totalMatches(article.opinionMatches, OPINION_INDICATORS),
             article.textLength),
         transparency |-> Frac(weak.den - weak.num, weak.den)]
      evidence == collectEvidence(cfg, article)
  IN [indicators |-> indicators,
      confidence |-> IF article.textLength > 5000 THEN Frac(9, 10)
                     ELSE Frac(6250 + article.textLength, 12500),
      summary |-> generateSummary(indicators),
      evidence |-> IF cfg.includeEvidence THEN evidence ELSE <<>>,
      method |-> "heuristic"]

\* a * staticWeight + b * heuristicWeight, the weights in tenths.
blend(a, b, staticWeight) ==
  Frac(a.num * b.den * staticWeight + b.num * a.den * (10 - staticWeight),
       a.den * b.den * 10)

\* analyzeCombined with the confidence of the heuristic analysis alone.
analyzeCombined_heuristicConfidence(cfg, article, source) ==
  LET staticAnalysis == analyzeStatic(article, source)
      heuristicAnalysis == analyzeHeuristic(cfg, article, source)
      staticWeight == IF article.hasContent THEN 3 ELSE 7
      indicators == [d \in Dimensions |->
                       blend(staticAnalysis.indicators[d],
                             heuristicAnalysis.indicators[d], staticWeight)]
  IN [indicators |-> indicators,
      confidence |-> heuristicAnalysis.confidence,
      summary |-> generateSummary(indicators),
      evidence |-> heuristicAnalysis.evidence,
      method |-> "combined"]

\* analyzeCombined(article, source): the static analysis weighs 0.3 when
\* article.content is longer than 200, 0.7 otherwise.
analyzeCombined(cfg, article, source) ==
  LET staticAnalysis == analyzeStatic(article, source)
      heuristicAnalysis == analyzeHeuristic(cfg, article, source)
      staticWeight == IF article.hasContent THEN 3 ELSE 7
      indicators == [d \in Dimensions |->
                       blend(staticAnalysis.indicators[d],
                             heuristicAnalysis.indicators[d], staticWeight)]
  IN [indicators |-> indicators,
      confidence |-> blend(staticAnalysis.confidence,
                           heuristicAnalysis.confidence, staticWeight),
      summary |-> generateSummary(indicators),
      evidence |-> heuristicAnalysis.evidence,
      method |-> "combined"]

\* What a call returned.
Returned(analysis) ==
  [threw |-> FALSE, indicators |-> analysis.indicators,
   confidence |-> analysis.confidence, summary |-> analysis.summary,
   evidence |-> analysis.evidence, method |-> analysis.method]

\* analyze(article): the analysis by this.config.method; 'llm' throws.
analyze(cfg, article) ==
  LET source == getSource(article.sourceId)
  IN IF cfg.method = "static"
     THEN Returned(analyzeStatic(article, source))
     ELSE IF cfg.method = "heuristic"
     THEN Returned(analyzeHeuristic(cfg, article, source))
     ELSE IF cfg.method = "llm"
     THEN [threw |-> TRUE]
     ELSE Returned(analyzeCombined(cfg, article, source))

\* ------------------------------------------------------------------------
\* State
\* ------------------------------------------------------------------------

VARIABLES
  mode,                \* which part of the system this behaviour runs
  articles,            \* the batch passed to clusterArticles
  pc,                  \* position inside clusterIntoStories
  similarityMatrix,    \* clusterArticles: const similarityMatrix
  uf,                  \* clusterArticles: const uf = new UnionFind(...)
  cursor,              \* clusterArticles: position of the double loop
  lastUnion,           \* arguments of the latest uf.union call
  clusters,            \* the Map clusterArticles returned
  result,              \* what clusterIntoStories returned
  storyCounter,        \* story ids generated so far
  run,                 \* 1 on the first run over the batch, 2 on the second
  firstResult,         \* what the first run returned
  config,              \* this.config of StoryAggregator or BiasAnalyzer
  now,                 \* Date.now(), in hours
  ranAt,               \* Date.now() as the latest run of aggregate read it
  hasKV,               \* db: what checkKV() answers
  articleCache,        \* db/articles: the in-memory Map used without KV
  kv,                  \* the KV store: article keys, the set
                       \* 'articles:unclustered', story keys
  route,               \* per request of a cluster route: its position and
                       \* its local constants
  prefetchCache,       \* lib/prefetch: the Map storyId -> PrefetchEntry
  requests,            \* the fetch('/api/summary') calls issued, in order
  calls                \* the calls of prefetchSummary and getOrFetchSummary

clusterVars == <<articles, pc, similarityMatrix, uf, cursor, lastUnion,
                 clusters, result, storyCounter, run, firstResult>>

aggregateVars == <<config, now, ranAt>>

pipelineVars == <<hasKV, articleCache, kv, route>>

prefetchVars == <<prefetchCache, requests, calls>>

vars == <<mode, clusterVars, aggregateVars, pipelineVars, prefetchVars>>

NoResult == [stories |-> <<>>, clusteredArticleIds |-> <<>>,
             unclusteredIds |-> <<>>]

\* Article.source.name of the article with id k: the batch alternates
\* between the two sources, so that it holds pairs of one source and pairs
\* of different sources.
SourceOfId(k) == IF k % 2 = 1 THEN "ap" ELSE "fox"

\* The batch of n articles with distinct ids 1..n, in array order, whose
\* vectors are vs[1..n].
Batch(n, vs) ==
  [k \in 1..n |-> [id |-> k, source |-> SourceOfId(k), vector |-> vs[k]]]

\* No summary has been asked for.
PrefetchIdle ==
  /\ prefetchCache = <<>>
  /\ requests = <<>>
  /\ calls = <<>>

PipelineIdle ==
  /\ hasKV = FALSE
  /\ articleCache = <<>>
  /\ kv = None
  /\ route = None

ClusterIdle ==
  /\ pc = "start"
  /\ similarityMatrix = None
  /\ uf = None
  /\ cursor = [i |-> 1, j |-> 1]
  /\ lastUnion = None
  /\ clusters = <<>>
  /\ result = NoResult

InitCluster ==
  /\ PrefetchIdle
  /\ mode = "cluster"
  /\ \E n \in 0..MaxArticles : \E vs \in [1..n -> VectorPool] :
       articles = Batch(n, vs)
  /\ ClusterIdle
  /\ storyCounter = 0
  /\ run = 1
  /\ firstResult = None
  /\ config = None
  /\ now = 0
  /\ ranAt = None
  /\ PipelineIdle

\* clusterArticles, up to `new UnionFind(...)`; an empty batch returns the
\* empty Map at once.
ClusterStart ==
  /\ mode = "cluster"
  /\ pc = "start"
  /\ IF Len(articles) = 0
     THEN /\ pc' = "stories"
          /\ UNCHANGED <<similarityMatrix, uf, prefetchVars>>
     ELSE /\ pc' = "union"
          /\ similarityMatrix' =
               calculateSimilarityMatrix(buildTfIdfVectors(articles))
          /\ uf' = NewUnionFind([k \in 1..Len(articles) |-> articles[k].id])
  /\ UNCHANGED <<mode, articles, cursor, lastUnion, clusters, result,
                 storyCounter, run, firstResult, aggregateVars, pipelineVars, prefetchVars>>

\* const similar = findSimilarDocuments(article.id, similarityMatrix, ...)
\* for the i-th article of the batch.
SimilarOf(i) ==
  findSimilarDocuments(articles[i].id, similarityMatrix, SIMILARITY_THRESHOLD)

\* The position of the next uf.union call at or after entry j of the i-th
\* article's list; i = Len(articles) + 1 when the loops are over.
RECURSIVE NextCall(_, _)
NextCall(i, j) ==
  IF i > Len(articles) THEN [i |-> i, j |-> 1]
  ELSE IF j <= Len(SimilarOf(i)) THEN [i |-> i, j |-> j]
  ELSE NextCall(i + 1, 1)

\* One uf.union(article.id, otherId) of the double loop.
UnionStep ==
  /\ mode = "cluster"
  /\ pc = "union"
  /\ LET at == NextCall(cursor.i, cursor.j)
     IN /\ at.i <= Len(articles)
        /\ uf' = union(uf, articles[at.i].id, SimilarOf(at.i)[at.j])
        /\ lastUnion' = [x |-> articles[at.i].id, y |-> SimilarOf(at.i)[at.j]]
        /\ cursor' = [i |-> at.i, j |-> at.j + 1]
  /\ UNCHANGED <<mode, articles, pc, similarityMatrix, clusters, result,
                 storyCounter, run, firstResult, aggregateVars, pipelineVars, prefetchVars>>

\* The loops are over: uf.getClusters() and the MIN_CLUSTER_SIZE filter.
GetClusters ==
  /\ mode = "cluster"
  /\ pc = "union"
  /\ NextCall(cursor.i, cursor.j).i > Len(articles)
  /\ clusters' = filterClusters(articles, uf)
  /\ pc' = "stories"
  /\ UNCHANGED <<mode, articles, similarityMatrix, uf, cursor, lastUnion,
                 result, storyCounter, run, firstResult, aggregateVars, pipelineVars, prefetchVars>>

\* The rest of clusterIntoStories: a Story per cluster, then unclusteredIds.
BuildStories ==
  /\ mode = "cluster"
  /\ pc = "stories"
  /\ result' = storiesOfClusters(articles, clusters, storyCounter)
  /\ storyCounter' = storyCounter + Len(clusters)
  /\ pc' = "done"
  /\ UNCHANGED <<mode, articles, similarityMatrix, uf, cursor, lastUnion,
                 clusters, run, firstResult, aggregateVars, pipelineVars, prefetchVars>>

\* The caller runs clusterIntoStories a second time on the same batch.
RunAgain ==
  /\ mode = "cluster"
  /\ pc = "done"
  /\ run = 1
  /\ run' = 2
  /\ firstResult' = result
  /\ pc' = "start"
  /\ similarityMatrix' = None
  /\ uf' = None
  /\ cursor' = [i |-> 1, j |-> 1]
  /\ lastUnion' = None
  /\ clusters' = <<>>
  /\ result' = NoResult
  /\ UNCHANGED <<mode, articles, storyCounter, aggregateVars, pipelineVars, prefetchVars>>

NextCluster ==
  \/ ClusterStart
  \/ UnionStep
  \/ GetClusters
  \/ BuildStories

\* One run of clusterIntoStories over a batch.
SpecCluster == InitCluster /\ [][NextCluster]_vars

\* ------------------------------------------------------------------------
\* StoryAggregator.aggregate as a state machine
\* ------------------------------------------------------------------------

\* AggregationConfig: the defaults of the constructor (0.3, 48, 2), an
\* override of the threshold and an override of the minimum size.  The
\* threshold is in hundredths.
Configs ==
  {[similarityThreshold |-> 30, timeWindowHours |-> 48, minArticlesPerStory |-> 2],
   [similarityThreshold |-> 50, timeWindowHours |-> 48, minArticlesPerStory |-> 2],
   [similarityThreshold |-> 30, timeWindowHours |-> 48, minArticlesPerStory |-> 1]}

\* The values Date.now() takes, in hours.
ClockValues == {48, 60}

\* The batch of n NewsArticles with distinct ids 1..n, in array order.
News(n, cs, ss, ts) ==
  [k \in 1..n |->
     [id |-> k, sourceId |-> ss[k], publishedAt |-> ts[k], content |-> cs[k],
      entities |-> Contents[cs[k]].entities]]

InitAggregate ==
  /\ PrefetchIdle
  /\ mode = "aggregate"
  /\ \E n \in 0..MaxNews :
       \E cs \in [1..n -> ContentNames], ss \in [1..n -> NewsSources],
          ts \in [1..n -> PublishTimes] :
         articles = News(n, cs, ss, ts)
  /\ config \in Configs
  /\ now = 48
  /\ ranAt = None
  /\ PipelineIdle
  /\ ClusterIdle
  /\ storyCounter = 0
  /\ run = 1
  /\ firstResult = None

\* aggregator.aggregate(articles)
Aggregate ==
  /\ mode = "aggregate"
  /\ pc = "start"
  /\ LET r == aggregate(config, articles, now)
     IN /\ result' = r.stories
        /\ articles' = r.articles
  /\ ranAt' = now
  /\ pc' = "done"
  /\ UNCHANGED <<mode, similarityMatrix, uf, cursor, lastUnion, clusters,
                 storyCounter, run, firstResult, config, now, pipelineVars, prefetchVars>>

\* Time passes.
Tick ==
  /\ mode = "aggregate"
  /\ \E later \in ClockValues : later > now /\ now' = later
  /\ UNCHANGED <<mode, clusterVars, config, ranAt, pipelineVars, prefetchVars>>

\* A second run in which the articles of the stories of the first run are
\* still marked as assigned.
AggregateAgain_assignedKept ==
  /\ mode = "aggregate"
  /\ pc = "done"
  /\ run = 1
  /\ run' = 2
  /\ firstResult' = [stories |-> result, ranAt |-> ranAt]
  /\ LET assigned == UNION {{result[s].articles[m].id :
                               m \in 1..Len(result[s].articles)} :
                              s \in 1..Len(result)}
         free == {a \in Range(articles) : a.id \notin assigned}
     IN result' = aggregate(config, FilterSeq(articles, free), now).stories
  /\ ranAt' = now
  /\ UNCHANGED <<mode, articles, pc, similarityMatrix, uf, cursor, lastUnion,
                 clusters, storyCounter, config, now, pipelineVars, prefetchVars>>

\* The caller runs aggregate a second time on the same articles.
AggregateAgain ==
  /\ mode = "aggregate"
  /\ pc = "done"
  /\ run = 1
  /\ run' = 2
  /\ firstResult' = [stories |-> result, ranAt |-> ranAt]
  /\ LET r == aggregate(config, articles, now)
     IN /\ result' = r.stories
        /\ articles' = r.articles
  /\ ranAt' = now
  /\ UNCHANGED <<mode, pc, similarityMatrix, uf, cursor, lastUnion, clusters,
                 storyCounter, config, now, pipelineVars, prefetchVars>>

NextAggregate ==
  \/ Aggregate
  \/ Tick

\* One run of StoryAggregator.aggregate over a batch.
SpecAggregate == InitAggregate /\ [][NextAggregate]_vars

\* One run of either cluster builder over a batch.
Spec == (InitCluster \/ InitAggregate) /\ [][NextCluster \/ NextAggregate]_vars

\* Two runs of either cluster builder over the same batch.
SpecTwice ==
  (InitCluster \/ InitAggregate)
    /\ [][NextCluster \/ RunAgain \/ NextAggregate \/ AggregateAgain]_vars

\* ------------------------------------------------------------------------
\* StoryAggregator.createStory over one cluster
\* ------------------------------------------------------------------------

\* The sourceIds of the members of a cluster: four sources left of -0.2,
\* two in the centre, two right of 0.2, and one the registry does not know.
CoverageSources ==
  <<"cnn", "msnbc", "nyt", "wapo", "ap", "reuters", "fox", "wsj", "blog">>

\* The cluster with counts[k] articles of the k-th source, from source k on;
\* `made` is the number of articles before them.
RECURSIVE MembersFrom(_, _, _)
MembersFrom(counts, k, made) ==
  IF k > Len(CoverageSources) THEN <<>>
  ELSE [m \in 1..counts[k] |->
          [id |-> made + m, sourceId |-> CoverageSources[k]]]
         \o MembersFrom(counts, k + 1, made + counts[k])

InitCoverage ==
  /\ PrefetchIdle
  /\ mode = "coverage"
  /\ \E counts \in [1..Len(CoverageSources) -> 0..MaxPerSource] :
       /\ \E k \in 1..Len(CoverageSources) : counts[k] > 0
       /\ articles = MembersFrom(counts, 1, 0)
  /\ config = None
  /\ now = 0
  /\ ranAt = None
  /\ PipelineIdle
  /\ ClusterIdle
  /\ storyCounter = 0
  /\ run = 1
  /\ firstResult = None

\* this.createStory(cluster)
CreateStory ==
  /\ mode = "coverage"
  /\ pc = "start"
  /\ result' = createStory(articles)
  /\ pc' = "done"
  /\ UNCHANGED <<mode, articles, similarityMatrix, uf, cursor, lastUnion,
                 clusters, storyCounter, run, firstResult, aggregateVars,
                 pipelineVars, prefetchVars>>

\* createStory over one cluster of any mix of sources.
SpecCoverage == InitCoverage /\ [][CreateStory]_vars

\* ------------------------------------------------------------------------
\* BiasAnalyzer.analyze over one article
\* ------------------------------------------------------------------------

\* AnalysisConfig.method
Methods == {"static", "heuristic", "llm", "combined"}

\* The matches of one list in a text: none, one, and many, as runs
\* [phrase, times] in the order of the text.
Texts(runs) == {<<>>, <<[phrase |-> runs[1], times |-> 1]>>,
                [k \in 1..Len(runs) |->
                   [phrase |-> runs[k],
                    times |-> IF k = 2 THEN MaxMatches ELSE 1]]}

\* The clickbait patterns a title shows: none ("Senate passes budget"),
\* upper case with '!' ("SHOCKING!"), a short question with a list and
\* "you should" ("7 reasons you should care?"), all five, and the title
\* without a letter ("" or "2024"), which equals its own upper case.
Titles ==
  {[exclamation |-> FALSE, shortQuestion |-> FALSE, listicle |-> FALSE,
    addressesYou |-> FALSE, upperCase |-> FALSE, letters |-> TRUE],
   [exclamation |-> TRUE, shortQuestion |-> FALSE, listicle |-> FALSE,
    addressesYou |-> FALSE, upperCase |-> TRUE, letters |-> TRUE],
   [exclamation |-> FALSE, shortQuestion |-> TRUE, listicle |-> TRUE,
    addressesYou |-> TRUE, upperCase |-> FALSE, letters |-> TRUE],
   [exclamation |-> TRUE, shortQuestion |-> TRUE, listicle |-> TRUE,
    addressesYou |-> TRUE, upperCase |-> TRUE, letters |-> TRUE],
   [exclamation |-> FALSE, shortQuestion |-> FALSE, listicle |-> FALSE,
    addressesYou |-> FALSE, upperCase |-> TRUE, letters |-> FALSE]}

\* text.length with article.content.length > 200: a text without content,
\* and a long text whose length comes from the content or from the summary.
TextSizes ==
  {[textLength |-> 150, hasContent |-> FALSE],
   [textLength |-> 20000, hasContent |-> TRUE],
   [textLength |-> 20000, hasContent |-> FALSE]}

InitBias ==
  /\ PrefetchIdle
  /\ mode = "bias"
  /\ \E sourceId \in {"ap", "fox", "blog"}, title \in Titles, size \in TextSizes,
        l \in Texts(<<"racist", "fascist">>),
        r \in Texts(<<"woke", "socialist">>),
        sens \in Texts(<<"shocking", "bombshell">>),
        o \in Texts(<<"clearly", "obviously", "should">>),
        w \in Texts(<<"sources say", "sources claim", "some say">>) :
       articles = << [id |-> 1, sourceId |-> sourceId, title |-> title,
                      textLength |-> size.textLength,
                      hasContent |-> size.hasContent,
                      leftTerms |-> l, rightTerms |-> r,
                      sensationalTerms |-> sens, opinionMatches |-> o,
                      weakAttributions |-> w] >>
  /\ \E method \in Methods, includeEvidence \in BOOLEAN :
       config = [method |-> method, includeEvidence |-> includeEvidence]
  /\ now = 0
  /\ ranAt = None
  /\ PipelineIdle
  /\ ClusterIdle
  /\ storyCounter = 0
  /\ run = 1
  /\ firstResult = None

\* analyzer.analyze(article)
Analyze ==
  /\ mode = "bias"
  /\ pc = "start"
  /\ result' = analyze(config, articles[1])
  /\ pc' = "done"
  /\ UNCHANGED <<mode, articles, similarityMatrix, uf, cursor, lastUnion,
                 clusters, storyCounter, run, firstResult, aggregateVars,
                 pipelineVars, prefetchVars>>

\* One call of BiasAnalyzer.analyze.
SpecBias == InitBias /\ [][Analyze]_vars

\* ------------------------------------------------------------------------
\* UnionFind under arbitrary calls
\* ------------------------------------------------------------------------

\* new UnionFind(ids) over MaxIds ids.
InitUnionFind ==
  /\ PrefetchIdle
  /\ mode = "unionfind"
  /\ uf = NewUnionFind([k \in 1..MaxIds |-> k])
  /\ articles = <<>>
  /\ pc = "start"
  /\ similarityMatrix = None
  /\ cursor = [i |-> 1, j |-> 1]
  /\ lastUnion = None
  /\ clusters = <<>>
  /\ result = NoResult
  /\ storyCounter = 0
  /\ run = 1
  /\ firstResult = None
  /\ config = None
  /\ now = 0
  /\ ranAt = None
  /\ PipelineIdle

\* uf.union(x, y)
Union(x, y) ==
  /\ mode = "unionfind"
  /\ uf' = union(uf, x, y)
  /\ UNCHANGED <<mode, articles, pc, similarityMatrix, cursor, lastUnion,
                 clusters, result, storyCounter, run, firstResult,
                 aggregateVars, pipelineVars, prefetchVars>>

\* uf.find(x)
Find(x) ==
  /\ mode = "unionfind"
  /\ uf' = find(uf, x).uf
  /\ UNCHANGED <<mode, articles, pc, similarityMatrix, cursor, lastUnion,
                 clusters, result, storyCounter, run, firstResult,
                 aggregateVars, pipelineVars, prefetchVars>>

NextUnionFind ==
  \/ \E x \in 1..MaxIds, y \in 1..MaxIds : Union(x, y)
  \/ \E x \in 1..MaxIds : Find(x)

\* Any sequence of union and find calls on the ids of one UnionFind.
SpecUnionFind == InitUnionFind /\ [][NextUnionFind]_vars

\* ------------------------------------------------------------------------
\* web/src/app/api/cron/cluster (GET) and web/src/app/api/admin/cluster (POST)
\* over web/src/lib/db
\* ------------------------------------------------------------------------

\* The two requests: the hourly cron job and a manual trigger.  Both are
\* authorized; every `await` of a route is a point where the other request
\* may run.
Routes == {"cron", "admin"}

\* getUnclusteredArticles that returns every stored article.
getUnclusteredArticles_all == IF hasKV THEN kv.articles ELSE articleCache

\* getUnclusteredArticles(): without KV the cached articles that have no
\* storyId; with KV the articles of the set 'articles:unclustered' whose
\* key exists.  The batch is taken in id order.
getUnclusteredArticles ==
  LET all == [k \in 1..Len(articleCache) |-> k]
  IN IF ~hasKV
     THEN [k \in 1..Len(FilterSeq(all, {i \in Range(all) : articleCache[i].storyId = 0})) |->
             articleCache[FilterSeq(all, {i \in Range(all) : articleCache[i].storyId = 0})[k]]]
     ELSE LET ids == [k \in 1..Len(kv.articles) |-> k]
              live == FilterSeq(ids, kv.unclustered)
          IN [k \in 1..Len(live) |-> kv.articles[live[k]]]

\* The Article records a route clusters: id, source and vector of a stored
\* article.
AsBatch(stored) ==
  [k \in 1..Len(stored) |->
     [id |-> stored[k].id, source |-> stored[k].source,
      vector |-> stored[k].vector]]

\* markArticlesClustered(articleIds, storyId) without KV: the cached
\* articles get the storyId.
markInCache(cache, articleIds, storyId) ==
  [k \in 1..Len(cache) |->
     IF cache[k].id \in Range(articleIds)
     THEN [cache[k] EXCEPT !.storyId = storyId] ELSE cache[k]]

\* markArticlesClustered(articleIds, storyId) with KV: the stored articles
\* get the storyId and the ids leave 'articles:unclustered'.
markInKV(store, articleIds, storyId) ==
  [store EXCEPT
     !.articles = [k \in 1..Len(store.articles) |->
                     IF store.articles[k].id \in Range(articleIds)
                     THEN [store.articles[k] EXCEPT !.storyId = storyId]
                     ELSE store.articles[k]],
     !.unclustered = store.unclustered \ Range(articleIds)]

\* saveStories(stories) with KV: one story key per story.
saveStories(store, stories) ==
  [store EXCEPT !.stories = store.stories \cup Range(stories)]

\* The n stored articles, none of them clustered yet: story ids start at 1
\* and storyId 0 is an article without storyId.
Stored(n, vs) ==
  [k \in 1..n |-> [id |-> k, source |-> SourceOfId(k), vector |-> vs[k],
                   storyId |-> 0]]

IdleRoute == [pc |-> "start", unclustered |-> <<>>, out |-> NoResult,
              marked |-> 0, response |-> None]

InitPipeline ==
  /\ PrefetchIdle
  /\ mode = "pipeline"
  /\ hasKV \in BOOLEAN
  /\ \E n \in 0..MaxStored : \E vs \in [1..n -> VectorPool] :
       /\ articleCache = IF hasKV THEN <<>> ELSE Stored(n, vs)
       /\ kv = IF hasKV
               THEN [articles |-> Stored(n, vs), unclustered |-> 1..n,
                     stories |-> {}]
               ELSE None
  /\ route = [r \in Routes |-> IdleRoute]
  /\ articles = <<>>
  /\ ClusterIdle
  /\ storyCounter = 0
  /\ run = 1
  /\ firstResult = None
  /\ config = None
  /\ now = 0
  /\ ranAt = None

\* Respond through the catch branch: success false, status 500.
Respond_asFailure(r, success, processed, created) ==
  [route EXCEPT ![r].pc = "done",
                ![r].response = [success |-> FALSE,
                                 articlesProcessed |-> processed,
                                 storiesCreated |-> created]]

\* NextResponse.json({success, articlesProcessed, storiesCreated, ...})
Respond(r, success, processed, created) ==
  [route EXCEPT ![r].pc = "done",
                ![r].response = [success |-> success,
                                 articlesProcessed |-> processed,
                                 storiesCreated |-> created]]

\* const unclustered = await getUnclusteredArticles(); an empty list is
\* answered at once.
Fetch(r) ==
  /\ mode = "pipeline"
  /\ route[r].pc = "start"
  /\ LET unclustered == getUnclusteredArticles
     IN route' = IF Len(unclustered) = 0
                 THEN Respond(r, TRUE, 0, 0)
                 ELSE [route EXCEPT ![r].pc = "cluster",
                                    ![r].unclustered = unclustered]
  /\ UNCHANGED <<mode, clusterVars, aggregateVars, hasKV, articleCache, kv, prefetchVars>>

\* await clusterIntoStories(unclustered); no story is answered at once.
Cluster(r) ==
  /\ mode = "pipeline"
  /\ route[r].pc = "cluster"
  /\ LET out == clusterIntoStories(AsBatch(route[r].unclustered), storyCounter)
     IN /\ route' = IF Len(out.stories) = 0
                    THEN [Respond(r, TRUE, Len(route[r].unclustered), 0)
                            EXCEPT ![r].out = out]
                    ELSE [route EXCEPT ![r].pc = "save", ![r].out = out]
        /\ storyCounter' = storyCounter + Len(out.stories)
  /\ UNCHANGED <<mode, articles, pc, similarityMatrix, uf, cursor, lastUnion,
                 clusters, result, run, firstResult, aggregateVars, hasKV,
                 articleCache, kv, prefetchVars>>

\* await saveStories(stories): nothing is persisted without KV.
Save(r) ==
  /\ mode = "pipeline"
  /\ route[r].pc = "save"
  /\ kv' = IF hasKV THEN saveStories(kv, route[r].out.stories) ELSE kv
  /\ route' = [route EXCEPT ![r].pc = "mark"]
  /\ UNCHANGED <<mode, clusterVars, aggregateVars, hasKV, articleCache, prefetchVars>>

\* One await markArticlesClustered(articleIds, storyId) of the loop over
\* clusteredArticleIds.
Mark(r) ==
  /\ mode = "pipeline"
  /\ route[r].pc = "mark"
  /\ route[r].marked < Len(route[r].out.clusteredArticleIds)
  /\ LET entry == route[r].out.clusteredArticleIds[route[r].marked + 1]
     IN IF hasKV
        THEN /\ kv' = markInKV(kv, entry.val, entry.key)
             /\ UNCHANGED articleCache
        ELSE /\ articleCache' = markInCache(articleCache, entry.val, entry.key)
             /\ UNCHANGED kv
  /\ route' = [route EXCEPT ![r].marked = @ + 1]
  /\ UNCHANGED <<mode, clusterVars, aggregateVars, hasKV, prefetchVars>>

\* The loop is over: the route answers with its counts.
Finish(r) ==
  /\ mode = "pipeline"
  /\ route[r].pc = "mark"
  /\ route[r].marked = Len(route[r].out.clusteredArticleIds)
  /\ route' = Respond(r, TRUE, Len(route[r].unclustered),
                      Len(route[r].out.stories))
  /\ UNCHANGED <<mode, clusterVars, aggregateVars, hasKV, articleCache, kv, prefetchVars>>

NextPipeline ==
  \/ \E r \in Routes : Fetch(r)
  \/ \E r \in Routes : Cluster(r)
  \/ \E r \in Routes : Save(r)
  \/ \E r \in Routes : Mark(r)
  \/ \E r \in Routes : Finish(r)

\* Two requests of the cluster routes over one article store.
SpecPipeline == InitPipeline /\ [][NextPipeline]_vars

\* saveArticles(articles) for one article the store does not hold yet: a
\* duplicate id is skipped and changes nothing.  The article has no storyId,
\* and with KV its id joins 'articles:unclustered'.
saveArticles(vector) ==
  LET stored == IF hasKV THEN kv.articles ELSE articleCache
      article == [id |-> Len(stored) + 1, source |-> SourceOfId(Len(stored) + 1),
                  vector |-> vector, storyId |-> 0]
  IN [cache |-> IF hasKV THEN articleCache ELSE Append(articleCache, article),
      store |-> IF hasKV
                THEN [kv EXCEPT !.articles = Append(@, article),
                                !.unclustered = @ \cup {article.id}]
                ELSE kv]

\* The ingestion job stores one new article.
Ingest ==
  /\ mode = "pipeline"
  /\ Len(IF hasKV THEN kv.articles ELSE articleCache) < MaxStored
  /\ \E vector \in VectorPool :
       /\ articleCache' = saveArticles(vector).cache
       /\ kv' = saveArticles(vector).store
  /\ UNCHANGED <<mode, clusterVars, aggregateVars, hasKV, route, prefetchVars>>

\* Requests that arrive one after the other: the request number `run` is
\* served by the cron route when odd and by the admin route when even.
Turn == IF run % 2 = 1 THEN "cron" ELSE "admin"

Previous == IF run % 2 = 1 THEN "admin" ELSE "cron"

\* The request in turn has been answered and the next one arrives; the
\* answered one keeps what it returned.
NextRequest ==
  /\ mode = "pipeline"
  /\ route[Turn].pc = "done"
  /\ run < MaxRequests
  /\ run' = run + 1
  /\ route' = [route EXCEPT ![Previous] = IdleRoute]
  /\ UNCHANGED <<mode, articles, pc, similarityMatrix, uf, cursor, lastUnion,
                 clusters, result, storyCounter, firstResult, aggregateVars,
                 hasKV, articleCache, kv, prefetchVars>>

NextSequential ==
  \/ Fetch(Turn)
  \/ Cluster(Turn)
  \/ Save(Turn)
  \/ Mark(Turn)
  \/ Finish(Turn)
  \/ NextRequest
  \/ Ingest

\* Cluster runs one after the other over one article store that the
\* ingestion job feeds.
SpecSequential == InitPipeline /\ [][NextSequential]_vars

\* clusterIntoStories over a batch, or two requests of the cluster routes.
SpecClusterAndRoutes ==
  (InitCluster \/ InitPipeline) /\ [][NextCluster \/ NextPipeline]_vars

\* ------------------------------------------------------------------------
\* web/src/lib/prefetch : prefetchSummary, getOrFetchSummary
\* ------------------------------------------------------------------------

\* The stories whose summary the page asks for.
StoryIds == {"story-1", "story-2"}

\* const prefetchCache = new Map(): no entry for any story.
InitPrefetch ==
  /\ mode = "prefetch"
  /\ prefetchCache = [id \in StoryIds |-> None]
  /\ requests = <<>>
  /\ calls = <<>>
  /\ articles = <<>>
  /\ ClusterIdle
  /\ storyCounter = 0
  /\ run = 1
  /\ firstResult = None
  /\ config = None
  /\ now = 0
  /\ ranAt = None
  /\ PipelineIdle

\* prefetchSummary without the test prefetchCache.has(storyId).
prefetchSummary_noHasCheck(storyId) ==
  [cache |-> [prefetchCache EXCEPT
                ![storyId] = [promise |-> Len(requests) + 1,
                              status |-> "loading"]],
   requests |-> Append(requests, [storyId |-> storyId, state |-> "pending"]),
   entry |-> Len(requests) + 1]

\* prefetchSummary(storyId, story) up to its await: with an entry in the
\* cache it returns at once; else it issues the request and stores the
\* entry, whose promise is the number of the request.  `entry` is the entry
\* the call created, 0 when it created none.
prefetchSummary(storyId) ==
  IF prefetchCache[storyId] # None
  THEN [cache |-> prefetchCache, requests |-> requests, entry |-> 0]
  ELSE [cache |-> [prefetchCache EXCEPT
                     ![storyId] = [promise |-> Len(requests) + 1,
                                   status |-> "loading"]],
        requests |-> Append(requests, [storyId |-> storyId, state |-> "pending"]),
        entry |-> Len(requests) + 1]

\* A call of prefetchSummary runs up to `await fetchPromise`.
PrefetchSummary(storyId) ==
  /\ mode = "prefetch"
  /\ Len(calls) < MaxCalls
  /\ LET started == prefetchSummary(storyId)
     IN /\ prefetchCache' = started.cache
        /\ requests' = started.requests
        /\ calls' = Append(calls,
             [fn |-> "prefetchSummary", storyId |-> storyId,
              pc |-> IF started.entry = 0 THEN "done" ELSE "await fetchPromise",
              entry |-> started.entry, returned |-> 0])
  /\ UNCHANGED <<mode, clusterVars, aggregateVars, pipelineVars>>

\* A call of getOrFetchSummary runs up to its return or its await: with an
\* entry in the cache it returns the promise of the entry, else it calls
\* prefetchSummary and waits for it.
GetOrFetchSummary(storyId) ==
  /\ mode = "prefetch"
  /\ Len(calls) < MaxCalls
  /\ LET existing == prefetchCache[storyId]
         started == prefetchSummary(storyId)
     IN IF existing # None
        THEN /\ calls' = Append(calls,
                  [fn |-> "getOrFetchSummary", storyId |-> storyId,
                   pc |-> "done", entry |-> 0, returned |-> existing.promise])
             /\ UNCHANGED <<prefetchCache, requests>>
        ELSE /\ prefetchCache' = started.cache
             /\ requests' = started.requests
             /\ calls' = Append(calls,
                  [fn |-> "getOrFetchSummary", storyId |-> storyId,
                   pc |-> IF started.entry = 0 THEN "await prefetchSummary"
                          ELSE "await fetchPromise",
                   entry |-> started.entry, returned |-> 0])
  /\ UNCHANGED <<mode, clusterVars, aggregateVars, pipelineVars>>

\* The response of /api/summary arrives: the promise of the request is
\* fulfilled when res.ok, rejected otherwise.
Settle(k) ==
  /\ mode = "prefetch"
  /\ requests[k].state = "pending"
  /\ \E state \in {"fulfilled", "rejected"} :
       requests' = [requests EXCEPT ![k].state = state]
  /\ UNCHANGED <<mode, clusterVars, aggregateVars, pipelineVars,
                 prefetchCache, calls>>

\* prefetchSummary resumes after `await fetchPromise`: the entry it created
\* becomes 'ready' or 'error'.
Resume(c) ==
  /\ mode = "prefetch"
  /\ calls[c].pc = "await fetchPromise"
  /\ requests[calls[c].entry].state # "pending"
  /\ prefetchCache' =
       IF prefetchCache[calls[c].storyId].promise = calls[c].entry
       THEN [prefetchCache EXCEPT
               ![calls[c].storyId].status =
                  IF requests[calls[c].entry].state = "fulfilled"
                  THEN "ready" ELSE "error"]
       ELSE prefetchCache
  /\ calls' = [calls EXCEPT
                 ![c].pc = IF calls[c].fn = "prefetchSummary" THEN "done"
                           ELSE "await prefetchSummary"]
  /\ UNCHANGED <<mode, clusterVars, aggregateVars, pipelineVars, requests>>

\* getOrFetchSummary resumes after `await prefetchSummary(...)`: it returns
\* the promise of the entry now in the cache.
ReturnPromise(c) ==
  /\ mode = "prefetch"
  /\ calls[c].pc = "await prefetchSummary"
  /\ calls' = [calls EXCEPT
                 ![c].pc = "done",
                 ![c].returned = prefetchCache[calls[c].storyId].promise]
  /\ UNCHANGED <<mode, clusterVars, aggregateVars, pipelineVars,
                 prefetchCache, requests>>

NextPrefetch ==
  \/ \E storyId \in StoryIds : PrefetchSummary(storyId)
  \/ \E storyId \in StoryIds : GetOrFetchSummary(storyId)
  \/ \E k \in 1..Len(requests) : Settle(k)
  \/ \E c \in 1..Len(calls) : Resume(c)
  \/ \E c \in 1..Len(calls) : ReturnPromise(c)

\* Calls of prefetchSummary and getOrFetchSummary in any interleaving.
SpecPrefetch == InitPrefetch /\ [][NextPrefetch]_vars

\* ------------------------------------------------------------------------
\* Properties of the cluster builder (web/src/lib/clustering)
\* ------------------------------------------------------------------------

InputIds == {articles[k].id : k \in 1..Len(articles)}

\* How often id occurs in the sequence s.
Occurrences(s, id) == Cardinality({k \in 1..Len(s) : s[k] = id})

\* How often id occurs in the member lists of clusteredArticleIds and in
\* unclusteredIds of a result of clusterIntoStories.
TimesReturned(r, id) ==
  SumOver(1..Len(r.clusteredArticleIds),
          [k \in 1..Len(r.clusteredArticleIds) |->
             Occurrences(r.clusteredArticleIds[k].val, id)])
    + Occurrences(r.unclusteredIds, id)

ReturnedIds(r) ==
  Range(r.unclusteredIds)
    \cup UNION {Range(r.clusteredArticleIds[k].val) :
                  k \in 1..Len(r.clusteredArticleIds)}

\* C1: when clusterIntoStories has returned, every input id occurs exactly
\* once in the member lists of clusteredArticleIds together with
\* unclusteredIds, and nothing else occurs there.
C1_ClusteredAndUnclusteredPartitionInput ==
  (mode = "cluster" /\ pc = "done") =>
     /\ ReturnedIds(result) = InputIds
     /\ \A id \in InputIds : TimesReturned(result, id) = 1

\* A run that returned both a story and an unclustered id.
C1_Witness ==
  /\ mode = "cluster"
  /\ pc = "done"
  /\ Len(result.stories) >= 1
  /\ Len(result.unclusteredIds) >= 1

\* The threshold graph of the batch: an edge joins two different ids whose
\* matrix similarity is >= SIMILARITY_THRESHOLD.
Edge(matrix, a, b) ==
  a # b /\ AtLeast(matrix.at[a, b], SIMILARITY_THRESHOLD)

\* The ids a chain of edges links to the ids of S.
RECURSIVE Linked(_, _)
Linked(matrix, S) ==
  LET T == S \cup {b \in Range(matrix.keys) :
                     \E a \in S : Edge(matrix, a, b)}
  IN IF T = S THEN S ELSE Linked(matrix, T)

Components(matrix) == {Linked(matrix, {a}) : a \in Range(matrix.keys)}

\* The sets of member ids of the clusters of a UnionFind.
Partition(u) == LET all == getClusters(u)
                IN {Range(all[k].ids) : k \in 1..Len(all)}

UnionsDone == mode = "cluster" /\ pc \in {"stories", "done"} /\ uf # None

SourceOf(id) == articles[CHOOSE k \in 1..Len(articles) : articles[k].id = id].source

\* C4: uf.union is never called for two articles of the same source.
C4_UnionOnlyAcrossSources ==
  (mode = "cluster" /\ lastUnion # None) =>
     SourceOf(lastUnion.x) # SourceOf(lastUnion.y)

\* The batch in another array order: position k holds articles[p[k]].
Reordered(p) == [k \in 1..Len(articles) |-> articles[p[k]]]

Orders == {p \in [1..Len(articles) -> 1..Len(articles)] :
             \A i, j \in 1..Len(articles) : p[i] = p[j] => i = j}

\* The matrix of the batch with its rows and entries inserted in the order
\* q (the order of every `similar` list), the values as computed.
WithRowOrder(matrix, q) ==
  [matrix EXCEPT !.keys = [k \in 1..Len(matrix.keys) |-> matrix.keys[q[k]]]]

\* The partition the union loop leaves when the articles are processed in
\* the order p and every list of similar ids is in the order q.
PartitionInOrder(p, q) ==
  LET batch == Reordered(p)
      u == NewUnionFind([k \in 1..Len(batch) |-> batch[k].id])
  IN Partition(applyUnions(u,
       unionCalls(batch, WithRowOrder(similarityMatrix, q))))

ArrayOrder == [k \in 1..Len(articles) |-> k]

\* C8: for a batch of at most MaxReordered articles, the partition the
\* union loop has built is the one it builds over the same matrix for every
\* other order p of the articles, whether the similar lists are in the
\* order p too or in the order of the batch, and for the articles in the
\* order of the batch with the similar lists in the order p.
C8_PartitionIndependentOfOrder ==
  (UnionsDone /\ pc = "stories" /\ Len(articles) <= MaxReordered) =>
     \A p \in Orders :
        /\ PartitionInOrder(p, p) = Partition(uf)
        /\ PartitionInOrder(p, ArrayOrder) = Partition(uf)
        /\ PartitionInOrder(ArrayOrder, p) = Partition(uf)

\* A finished union loop over a batch in which some union merged two sets.
C8_Witness ==
  /\ UnionsDone
  /\ pc = "stories"
  /\ Len(articles) >= 3
  /\ \E S \in Partition(uf) : Cardinality(S) >= 3

\* ------------------------------------------------------------------------
\* Properties of StoryAggregator (src/core/aggregator)
\* ------------------------------------------------------------------------

Aggregated == mode = "aggregate" /\ pc = "done"

MemberIds(story) == {story.articles[m].id : m \in 1..Len(story.articles)}

\* C3: no story aggregate returned holds two articles of one sourceId.
C3_NoTwoMembersOfOneSource ==
  Aggregated =>
     \A s \in 1..Len(result) :
        \A m1, m2 \in 1..Len(result[s].articles) :
           result[s].articles[m1].sourceId = result[s].articles[m2].sourceId
             => m1 = m2

\* C5: in what aggregate returned and in what clusterIntoStories returned,
\* no article id is a member of two stories (or twice of one).
C5_ArticleInAtMostOneStory ==
  /\ Aggregated =>
       /\ \A s1, s2 \in 1..Len(result) :
            s1 # s2 => MemberIds(result[s1]) \cap MemberIds(result[s2]) = {}
       /\ \A s \in 1..Len(result) :
            Cardinality(MemberIds(result[s])) = Len(result[s].articles)
  /\ (mode = "cluster" /\ pc = "done") =>
       \A id \in InputIds :
          SumOver(1..Len(result.clusteredArticleIds),
                  [k \in 1..Len(result.clusteredArticleIds) |->
                     Occurrences(result.clusteredArticleIds[k].val, id)]) <= 1

\* aggregate returned two stories, one of them with several members.
C5_Witness ==
  /\ Aggregated
  /\ Len(result) >= 2
  /\ \E s \in 1..Len(result) : Len(result[s].articles) >= 2

\* C7: every story of clusterIntoStories has at least MIN_CLUSTER_SIZE
\* members and every story of aggregate at least config.minArticlesPerStory;
\* the stories returned are exactly the groups that reach the minimum.
C7_NoStoryBelowMinimum ==
  /\ (mode = "cluster" /\ pc = "done") =>
       /\ Len(result.stories) = Len(result.clusteredArticleIds)
       /\ \A k \in 1..Len(result.clusteredArticleIds) :
            Len(result.clusteredArticleIds[k].val) >= MIN_CLUSTER_SIZE
       /\ \A k \in 1..Len(result.stories) :
            Len(result.stories[k].sources) >= MIN_CLUSTER_SIZE
  /\ Aggregated =>
       \A s \in 1..Len(result) :
          Len(result[s].articles) >= config.minArticlesPerStory

\* clusterIntoStories returned a story and left a group below the minimum
\* unclustered.
C7_Witness ==
  /\ mode = "cluster"
  /\ pc = "done"
  /\ Len(result.stories) >= 1
  /\ \E S \in Partition(uf) : Cardinality(S) < MIN_CLUSTER_SIZE

\* The sets of member ids of the stories a run returned.
MemberSets(r) ==
  IF mode = "cluster"
  THEN {Range(r.clusteredArticleIds[k].val) : k \in 1..Len(r.clusteredArticleIds)}
  ELSE {MemberIds(r[s]) : s \in 1..Len(r)}

SecondRunDone == pc = "done" /\ run = 2

\* C9 as stated: the second run over the same batch returns stories with
\* the member-id sets of the first run.
C9_SecondRunSamePartition ==
  SecondRunDone =>
     MemberSets(result) =
       MemberSets(IF mode = "cluster" THEN firstResult ELSE firstResult.stories)

\* The ids of the batch inside the time window at time `clock`.
RecentIds(clock) ==
  {a.id : a \in Range(recentArticles(config, articles, clock))}

\* C9 amended: the second run returns the member-id sets of the first run;
\* for aggregate, when the same articles are inside the time window at both
\* runs.
C9_SecondRunSamePartitionInSameWindow ==
  /\ (SecondRunDone /\ mode = "cluster") =>
        MemberSets(result) = MemberSets(firstResult)
  /\ (SecondRunDone /\ mode = "aggregate"
        /\ RecentIds(firstResult.ranAt) = RecentIds(ranAt)) =>
        MemberSets(result) = MemberSets(firstResult.stories)

\* aggregate ran twice, at different times with the same articles in the
\* window, and returned a story.
C9_Witness ==
  /\ SecondRunDone
  /\ mode = "aggregate"
  /\ firstResult.ranAt # ranAt
  /\ RecentIds(firstResult.ranAt) = RecentIds(ranAt)
  /\ Len(result) >= 1

\* C10: coverageAnalysis.sourceCount of every story is the number of
\* distinct sourceIds of its member articles.
C10_SourceCountIsDistinctSources ==
  Aggregated =>
     \A s \in 1..Len(result) :
        result[s].coverageAnalysis.sourceCount =
          Cardinality({result[s].articles[m].sourceId :
                         m \in 1..Len(result[s].articles)})

\* A story with more members than sources.
C10_Witness ==
  /\ Aggregated
  /\ \E s \in 1..Len(result) :
       Len(result[s].articles) > result[s].coverageAnalysis.sourceCount

\* ------------------------------------------------------------------------
\* Properties of the cluster routes
\* ------------------------------------------------------------------------

StoryUrls(story) == {story.sources[m].url : m \in 1..Len(story.sources)}

\* C6: no article is a member of two saved stories, whatever the
\* interleaving of the two requests.
C6_ArticleInAtMostOneSavedStory ==
  (mode = "pipeline" /\ hasKV) =>
     \A s1, s2 \in kv.stories :
        s1.id # s2.id => StoryUrls(s1) \cap StoryUrls(s2) = {}

\* ------------------------------------------------------------------------
\* Properties of the similarity matrix
\* ------------------------------------------------------------------------

MatrixBuilt == mode = "cluster" /\ similarityMatrix # None

\* The tf-idf vector of the article with the given id.
VectorOf(id) ==
  articles[CHOOSE k \in 1..Len(articles) : articles[k].id = id].vector

\* A vector without any term of positive weight: an empty Map.
IsEmptyVector(v) == \A t \in Terms : v[t] = 0

\* Two fractions denote the same number.
SameNumber(x, y) == x.den # 0 /\ y.den # 0 /\ x.num * y.den = y.num * x.den

IsZero(x) == x.den # 0 /\ x.num = 0

IsOne(x) == x.den # 0 /\ x.num = x.den

\* C11: the matrix calculateSimilarityMatrix returned is symmetric, and
\* every entry off the diagonal is the cosineSimilarity of the vectors of
\* the pair taken in the order of the batch.
C11_MatrixIsSymmetric ==
  MatrixBuilt =>
     \A a \in InputIds : \A b \in InputIds :
        /\ SameNumber(similarityMatrix.at[a, b], similarityMatrix.at[b, a])
        /\ a < b => similarityMatrix.at[b, a]
                      = cosineSimilarity(VectorOf(a), VectorOf(b))

\* A matrix with an entry off the diagonal that is neither 0 nor 1.
C11_Witness ==
  /\ MatrixBuilt
  /\ \E a \in InputIds : \E b \in InputIds :
       /\ a > b
       /\ ~IsZero(similarityMatrix.at[a, b])
       /\ ~IsOne(similarityMatrix.at[a, b])

\* C12: every diagonal entry of the matrix is exactly 1, whatever the
\* vector, the empty vector included.
C12_DiagonalIsOne ==
  MatrixBuilt => \A a \in InputIds : IsOne(similarityMatrix.at[a, a])

\* A matrix over a batch that holds a document with an empty vector.
C12_Witness ==
  /\ MatrixBuilt
  /\ \E a \in InputIds : IsEmptyVector(VectorOf(a))

\* C13: cosineSimilarity of two vectors of the batch, one of them empty, is
\* the number 0 (not NaN), in either order of the arguments and in the
\* matrix.
C13_ZeroNormGivesZero ==
  MatrixBuilt =>
     \A a \in InputIds : \A b \in InputIds \ {a} :
        IsEmptyVector(VectorOf(a)) =>
           /\ IsZero(cosineSimilarity(VectorOf(a), VectorOf(b)))
           /\ IsZero(cosineSimilarity(VectorOf(b), VectorOf(a)))
           /\ IsZero(similarityMatrix.at[a, b])

\* A matrix over two empty vectors and one that is not empty.
C13_Witness ==
  /\ MatrixBuilt
  /\ \E a \in InputIds : \E b \in InputIds \ {a} : \E c \in InputIds :
       /\ IsEmptyVector(VectorOf(a))
       /\ IsEmptyVector(VectorOf(b))
       /\ ~IsEmptyVector(VectorOf(c))

\* ------------------------------------------------------------------------
\* Properties of clusterIntoStories over particular documents
\* ------------------------------------------------------------------------

ClusterDone == mode = "cluster" /\ pc = "done"

\* The member-id sets of the stories of a result of clusterIntoStories.
StoryMembers(r) ==
  {Range(r.clusteredArticleIds[k].val) : k \in 1..Len(r.clusteredArticleIds)}

\* C14: a document with an empty vector is a member of no story that
\* clusterIntoStories returned (neither in clusteredArticleIds nor among the
\* sources of a story) and is in unclusteredIds.
C14_EmptyDocumentStaysUnclustered ==
  ClusterDone =>
     \A a \in InputIds :
        IsEmptyVector(VectorOf(a)) =>
           /\ \A S \in StoryMembers(result) : a \notin S
           /\ \A s \in 1..Len(result.stories) :
                \A m \in 1..Len(result.stories[s].sources) :
                   result.stories[s].sources[m].url # a
           /\ a \in Range(result.unclusteredIds)

\* A run that returned a story over a batch holding an empty document.
C14_Witness ==
  /\ ClusterDone
  /\ Len(result.stories) >= 1
  /\ \E a \in InputIds : IsEmptyVector(VectorOf(a))

\* Two documents that share no substantive term: no term has a positive
\* weight in both vectors.
NoSharedTerm(a, b) == \A t \in Terms : VectorOf(a)[t] = 0 \/ VectorOf(b)[t] = 0

\* C16 as stated: two articles without a shared substantive term are never
\* members of one story, whatever else the batch holds.
C16_NoSharedTermNeverOneStory ==
  ClusterDone =>
     \A a \in InputIds : \A b \in InputIds \ {a} :
        NoSharedTerm(a, b) =>
           \A S \in StoryMembers(result) : ~({a, b} \subseteq S)

\* C16 amended: two articles without a shared substantive term are never
\* passed to uf.union together, and they are members of one story only when
\* each of them is similar to a third article of that story.
C16_NoSharedTermOnlyThroughOthers ==
  /\ (mode = "cluster" /\ lastUnion # None) =>
        ~NoSharedTerm(lastUnion.x, lastUnion.y)
  /\ ClusterDone =>
       \A a \in InputIds : \A b \in InputIds \ {a} :
          NoSharedTerm(a, b) =>
             \A S \in StoryMembers(result) :
                {a, b} \subseteq S =>
                   /\ \E c \in S \ {a, b} : Edge(similarityMatrix, a, c)
                   /\ \E d \in S \ {a, b} : Edge(similarityMatrix, b, d)

\* A run that returned a story holding two articles without a shared term,
\* linked by a third article.
C16_Witness ==
  /\ ClusterDone
  /\ \E a \in InputIds : \E b \in InputIds \ {a} :
       /\ NoSharedTerm(a, b)
       /\ ~IsEmptyVector(VectorOf(a))
       /\ ~IsEmptyVector(VectorOf(b))
       /\ \E S \in StoryMembers(result) : {a, b} \subseteq S

NoPairSimilar(batch) ==
  LET matrix == calculateSimilarityMatrix(buildTfIdfVectors(batch))
  IN \A i \in 1..Len(batch) : \A j \in 1..Len(batch) :
        ~Edge(matrix, batch[i].id, batch[j].id)

IdsOf(batch) == [k \in 1..Len(batch) |-> batch[k].id]

\* The articles of the store, whether in the cache or in KV.
StoredArticles == IF hasKV THEN kv.articles ELSE articleCache

\* C15: when no pair of the batch reaches the threshold (the empty batch
\* included), clusterArticles returns no cluster and clusterIntoStories
\* returns no story and every input id in unclusteredIds; a cluster route
\* whose batch is such answers success with storiesCreated 0 and has
\* marked nothing, and when the whole store is such no story is saved and
\* no article is marked.
C15_NothingSimilarIsSuccess ==
  /\ (ClusterDone /\ NoPairSimilar(articles)) =>
        /\ clusters = <<>>
        /\ result.stories = <<>>
        /\ result.clusteredArticleIds = <<>>
        /\ result.unclusteredIds = IdsOf(articles)
  /\ mode = "pipeline" =>
        /\ \A r \in Routes :
              (route[r].pc = "done" /\ NoPairSimilar(AsBatch(route[r].unclustered))) =>
                 /\ route[r].response.success
                 /\ route[r].response.storiesCreated = 0
                 /\ route[r].response.articlesProcessed = Len(route[r].unclustered)
                 /\ route[r].out.stories = <<>>
                 /\ route[r].out.unclusteredIds = IdsOf(route[r].unclustered)
                 /\ route[r].marked = 0
        /\ NoPairSimilar(AsBatch(StoredArticles)) =>
              /\ hasKV => kv.stories = {}
              /\ \A k \in 1..Len(StoredArticles) : StoredArticles[k].storyId = 0

\* A route that clustered a batch of two or more dissimilar articles and
\* answered.
C15_Witness ==
  /\ mode = "pipeline"
  /\ \E r \in Routes :
       /\ route[r].pc = "done"
       /\ Len(route[r].unclustered) >= 2
       /\ NoPairSimilar(AsBatch(route[r].unclustered))

\* ------------------------------------------------------------------------
\* Properties of analyzeCoverage
\* ------------------------------------------------------------------------

StoryCreated == mode = "coverage" /\ pc = "done"

\* The positions of the members whose source the registry knows.
Resolved == {m \in 1..Len(articles) : articles[m].sourceId \in DOMAIN Registry}

LeanOf(m) == Registry[articles[m].sourceId].politicalLean

LeftCount == Cardinality({m \in Resolved : LeanOf(m) < -20})

RightCount == Cardinality({m \in Resolved : LeanOf(m) > 20})

CenterCount == Cardinality(Resolved) - LeftCount - RightCount

DistinctSources == Cardinality({articles[m].sourceId : m \in 1..Len(articles)})

\* C18: coverageBalance is "limited" below 3 distinct sources, else
\* "left-heavy" when the left count is more than twice the right count,
\* else "right-heavy" when the right count is more than twice the left
\* count, else "balanced"; 4 left, 1 centre, 0 right over 5 sources is
\* "left-heavy" and 2, 2, 2 is "balanced".
C18_CoverageBalance ==
  StoryCreated =>
     LET balance == result.coverageAnalysis.coverageBalance
     IN /\ balance =
             IF DistinctSources < 3 THEN "limited"
             ELSE IF LeftCount > 2 * RightCount THEN "left-heavy"
             ELSE IF RightCount > 2 * LeftCount THEN "right-heavy"
             ELSE "balanced"
        /\ (DistinctSources = 5 /\ LeftCount = 4 /\ CenterCount = 1
              /\ RightCount = 0) => balance = "left-heavy"
        /\ (LeftCount = 2 /\ CenterCount = 2 /\ RightCount = 2
              /\ Len(articles) = 6) => balance = "balanced"

\* The story of 4 left articles and 1 centre article of 5 sources.
C18_Witness ==
  /\ StoryCreated
  /\ DistinctSources = 5
  /\ Len(articles) = 5
  /\ LeftCount = 4
  /\ CenterCount = 1
  /\ RightCount = 0
  /\ result.coverageAnalysis.coverageBalance = "left-heavy"

\* C19: every dimension of averageBias is the arithmetic mean of that
\* dimension over the priors of the members whose source resolves, and the
\* number 0 (not NaN) when no member's source resolves.
C19_AverageBiasIsMean ==
  StoryCreated =>
     \A d \in Dimensions :
        LET avg == result.coverageAnalysis.averageBias[d]
            total == SumOver(Resolved,
                       [m \in Resolved |-> Registry[articles[m].sourceId][d]])
        IN /\ avg.den # 0
           /\ Resolved = {} => avg.num = 0
           /\ Resolved # {} => avg.num * Cardinality(Resolved) = total * avg.den

\* A story none of whose members resolves in the registry.
C19_Witness ==
  /\ StoryCreated
  /\ Len(articles) >= 1
  /\ Resolved = {}
  /\ result.coverageAnalysis.averageBias["politicalLean"].num = 0

\* ------------------------------------------------------------------------
\* Properties of BiasAnalyzer
\* ------------------------------------------------------------------------

\* lo <= x <= hi for a fraction x and integers lo, hi.
Within(x, lo, hi) ==
  x.den > 0 /\ lo * x.den <= x.num /\ x.num <= hi * x.den

\* C20: for the methods static, heuristic and combined the indicators
\* analyze returns are within bounds: politicalLean in [-1, 1], every other
\* dimension in [0, 1].
C20_IndicatorsWithinBounds ==
  (mode = "bias" /\ pc = "done" /\ config.method # "llm") =>
     /\ ~result.threw
     /\ \A d \in Dimensions :
          Within(result.indicators[d],
                 IF d = "politicalLean" THEN -1 ELSE 0, 1)

\* A combined analysis of a text with many weak attributions, many
\* sensational terms and left terms only: transparency and politicalLean of
\* the heuristic part sit on their bounds.
C20_Witness ==
  /\ mode = "bias"
  /\ pc = "done"
  /\ config.method = "combined"
  /\ matchesLength(articles[1].weakAttributions) >= MaxMatches
  /\ matchesLength(articles[1].sensationalTerms) >= MaxMatches
  /\ matchesLength(articles[1].leftTerms) >= MaxMatches
  /\ articles[1].rightTerms = <<>>
  /\ Within(result.indicators["transparency"], 0, 1)

\* ------------------------------------------------------------------------
\* BiasAnalyzer: failure semantics, blending and evidence
\* ------------------------------------------------------------------------

Analyzed == mode = "bias" /\ pc = "done"

\* The text has no match of any lexicon or pattern and its title shows no
\* clickbait pattern: no '!', no short question, no list, no "you should",
\* and it is not written in capital letters.
NoMatch(article) ==
  /\ article.leftTerms = <<>>
  /\ article.rightTerms = <<>>
  /\ article.sensationalTerms = <<>>
  /\ article.opinionMatches = <<>>
  /\ article.weakAttributions = <<>>
  /\ ~article.title.exclamation
  /\ ~article.title.shortQuestion
  /\ ~article.title.listicle
  /\ ~article.title.addressesYou
  /\ ~(article.title.upperCase /\ article.title.letters)

\* C21: analyze returns an analysis, without throwing, for every value of
\* the configured method and every text, and the heuristic analysis of a
\* text without any match has politicalLean 0, sensationalism 0,
\* opinionMixing 0 and transparency 1.
C21_NoMethodThrowsAndNoMatchIsNeutral ==
  Analyzed =>
     /\ ~result.threw
     /\ (config.method = "heuristic" /\ NoMatch(articles[1])) =>
          /\ IsZero(result.indicators.politicalLean)
          /\ IsZero(result.indicators.sensationalism)
          /\ IsZero(result.indicators.opinionMixing)
          /\ IsOne(result.indicators.transparency)

\* The analysis createUnknownAnalysis builds for a source the registry
\* does not know.
IsUnknownAnalysis(analysis) ==
  /\ SameNumber(analysis.confidence, Frac(1, 10))
  /\ IsZero(analysis.indicators.politicalLean)
  /\ \A d \in Dimensions \ {"politicalLean"} :
       SameNumber(analysis.indicators[d], Frac(1, 2))
  /\ analysis.summary = << <<"Unable to analyze", "Source not found in registry">> >>

\* C22: in static and in combined mode an article of a source the registry
\* does not know is analysed without throwing, and the analysis has
\* confidence 0.1, politicalLean 0, every other indicator 0.5 and the
\* summary that says the source is unknown.
C22_UnknownSourceGivesUnknownAnalysis ==
  (Analyzed /\ config.method \in {"static", "combined"}
     /\ getSource(articles[1].sourceId) = None) =>
     /\ ~result.threw
     /\ IsUnknownAnalysis(result)

\* n = (w * s + (10 - w) * h) / 10 for fractions n, s, h.
IsBlend(n, s, h, w) ==
  /\ n.den # 0
  /\ n.num * (s.den * h.den * 10)
       = n.den * (w * s.num * h.den + (10 - w) * h.num * s.den)

\* C23: in combined mode every indicator and the confidence are
\* w * static + (1 - w) * heuristic of the static and the heuristic analysis
\* of the same article, with w = 0.3 when the content is longer than 200
\* characters and w = 0.7 otherwise.
C23_CombinedIsWeightedBlend ==
  (Analyzed /\ config.method = "combined") =>
     LET source == getSource(articles[1].sourceId)
         s == analyzeStatic(articles[1], source)
         h == analyzeHeuristic(config, articles[1], source)
         w == IF articles[1].hasContent THEN 3 ELSE 7
     IN /\ ~result.threw
        /\ \A d \in Dimensions :
             IsBlend(result.indicators[d], s.indicators[d], h.indicators[d], w)
        /\ IsBlend(result.confidence, s.confidence, h.confidence, w)

\* A combined analysis of a long article of a known source with content,
\* whose confidence is neither the static 0.6 nor the heuristic one.
C23_Witness ==
  /\ Analyzed
  /\ config.method = "combined"
  /\ articles[1].sourceId = "fox"
  /\ articles[1].hasContent
  /\ articles[1].leftTerms # <<>>
  /\ SameNumber(result.confidence, Frac(81, 100))
  /\ ~SameNumber(result.indicators.politicalLean,
                 Frac(Registry["fox"].politicalLean, 100))

\* The lists a heuristic analysis scans, with the indicator each supports.
Scanned(article) ==
  {[runs |-> article.leftTerms, indicatorType |-> "politicalLean"],
   [runs |-> article.rightTerms, indicatorType |-> "politicalLean"],
   [runs |-> article.sensationalTerms, indicatorType |-> "sensationalism"],
   [runs |-> article.opinionMatches, indicatorType |-> "opinionMixing"],
   [runs |-> article.weakAttributions, indicatorType |-> "transparency"]}

\* C24: with evidence collection enabled, every lexicon term and every
\* pattern phrase the heuristic scan matched has an evidence entry with the
\* matched text, its indicator and an explanation; with evidence collection
\* disabled the returned evidence is empty.
C24_EveryMatchIsEvidence ==
  (Analyzed /\ config.method # "llm") =>
     IF config.includeEvidence
     THEN config.method \in {"heuristic", "combined"} =>
            \A list \in Scanned(articles[1]) :
              \A r \in Range(list.runs) :
                \E e \in Range(result.evidence) :
                  /\ e.text = r.phrase
                  /\ e.indicatorType = list.indicatorType
                  /\ e.explanation # <<>>
     ELSE result.evidence = <<>>

\* ------------------------------------------------------------------------
\* UnionFind: union by rank, path compression
\* ------------------------------------------------------------------------

\* The id reached from x by following parent pointers up to an id that is
\* its own parent, and at most n of them.
RECURSIVE RootWithin(_, _, _)
RootWithin(u, x, n) ==
  IF u.parent[x] = x \/ n = 0 THEN x
  ELSE RootWithin(u, u.parent[x], n - 1)

Ids(u) == DOMAIN u.parent

RootOf(u, x) == RootWithin(u, x, Cardinality(Ids(u)))

\* The ids on the way from x to its root, the root included.
RECURSIVE PathWithin(_, _, _)
PathWithin(u, x, n) ==
  IF u.parent[x] = x \/ n = 0 THEN {x}
  ELSE {x} \cup PathWithin(u, u.parent[x], n - 1)

PathOf(u, x) == PathWithin(u, x, Cardinality(Ids(u)))

\* The ids whose root is r, and the partition of all ids by root.
SetOf(u, r) == {z \in Ids(u) : RootOf(u, z) = r}

Sets(u) == {SetOf(u, RootOf(u, z)) : z \in Ids(u)}

RECURSIVE Pow2(_)
Pow2(r) == IF r = 0 THEN 1 ELSE 2 * Pow2(r - 1)

UnionFindRuns == mode = "unionfind"

\* Every root of rank r heads at least 2^r ids.
RankBoundsSize(u) ==
  \A r \in Ids(u) :
    u.parent[r] = r => Cardinality(SetOf(u, r)) >= Pow2(u.rank[r])

\* What union(x, y) does to two different roots rx of x and ry of y: the
\* root of lower rank gets the other as parent; on equal ranks ry gets rx
\* as parent and the rank of rx grows by one; no other rank changes, and the
\* two sets become one.
JoinsByRank(u, v, rx, ry) ==
  /\ u.rank[rx] < u.rank[ry] =>
       v.parent[rx] = ry /\ v.parent[ry] = ry /\ v.rank = u.rank
  /\ u.rank[rx] > u.rank[ry] =>
       v.parent[ry] = rx /\ v.parent[rx] = rx /\ v.rank = u.rank
  /\ u.rank[rx] = u.rank[ry] =>
       /\ v.parent[ry] = rx
       /\ v.parent[rx] = rx
       /\ v.rank = [u.rank EXCEPT ![rx] = @ + 1]
  /\ Sets(v) = (Sets(u) \ {SetOf(u, rx), SetOf(u, ry)})
                 \cup {SetOf(u, rx) \cup SetOf(u, ry)}

\* C25 as stated: after any sequence of unions every root of rank r heads
\* at least 2^r ids, a union of two different roots joins them by rank, and
\* a union of two ids that share a root leaves the whole object unchanged.
C25_UnionByRankElseNothingChanges ==
  UnionFindRuns =>
     /\ RankBoundsSize(uf)
     /\ \A x \in Ids(uf), y \in Ids(uf) :
          LET v == union(uf, x, y)
              rx == RootOf(uf, x)
              ry == RootOf(uf, y)
          IN IF rx = ry THEN v = uf
             ELSE JoinsByRank(uf, v, rx, ry)

\* C25: after any sequence of unions every root of rank r heads at least
\* 2^r ids, a union of two different roots joins them by rank, and a union
\* of two ids that share a root changes no rank, no root and no set: it
\* only re-points the ids on the paths of x and y to that root.
C25_UnionByRank ==
  UnionFindRuns =>
     /\ RankBoundsSize(uf)
     /\ \A x \in Ids(uf), y \in Ids(uf) :
          LET v == union(uf, x, y)
              rx == RootOf(uf, x)
              ry == RootOf(uf, y)
          IN IF rx = ry
             THEN /\ v.rank = uf.rank
                  /\ Sets(v) = Sets(uf)
                  /\ \A z \in Ids(uf) :
                       /\ RootOf(v, z) = RootOf(uf, z)
                       /\ v.parent[z] # uf.parent[z] =>
                            /\ z \in PathOf(uf, x) \cup PathOf(uf, y)
                            /\ v.parent[z] = rx
             ELSE JoinsByRank(uf, v, rx, ry)

\* Unions of equal and of different ranks have happened: a root of rank 2
\* heads all ids, more than 2^2, and one id is still two steps away from it,
\* so that a union inside the set compresses a path.
C25_Witness ==
  /\ UnionFindRuns
  /\ \E r \in Ids(uf) :
       /\ uf.parent[r] = r
       /\ uf.rank[r] = 2
       /\ SetOf(uf, r) = Ids(uf)
       /\ \E z \in Ids(uf) : uf.parent[z] # r /\ uf.parent[uf.parent[z]] = r

\* C26: after any sequence of union and find calls the parent map is a
\* forest: every id reaches an id that is its own parent; and find(x)
\* returns that root, changes no rank and no set, and re-points exactly the
\* ids on the path of x, below the root, to the root.
C26_ForestAndFindFrame ==
  UnionFindRuns =>
     /\ \A x \in Ids(uf) : uf.parent[RootOf(uf, x)] = RootOf(uf, x)
     /\ \A x \in Ids(uf) :
          LET f == find(uf, x)
              root == RootOf(uf, x)
          IN /\ f.root = root
             /\ f.uf.rank = uf.rank
             /\ f.uf.ids = uf.ids
             /\ Sets(f.uf) = Sets(uf)
             /\ \A z \in Ids(uf) :
                  f.uf.parent[z] = IF z \in PathOf(uf, x) \ {root} THEN root
                                   ELSE uf.parent[z]

\* Path compression has acted: a root of rank 2, which a union leaves with
\* an id two steps below it, has every id of its set as a direct child.
C26_Witness ==
  /\ UnionFindRuns
  /\ \E r \in Ids(uf) :
       /\ uf.parent[r] = r
       /\ uf.rank[r] = 2
       /\ \A z \in SetOf(uf, r) : uf.parent[z] = r

\* ------------------------------------------------------------------------
\* Cluster runs one after the other
\* ------------------------------------------------------------------------

\* The storyId of the stored article with the given id; 0 when it has none.
StoryIdOf(id) ==
  LET stored == StoredArticles
  IN stored[CHOOSE k \in 1..Len(stored) : stored[k].id = id].storyId

\* The ids getUnclusteredArticles returns now.
ReturnedNow == Range(IdsOf(getUnclusteredArticles))

\* The ids a route placed in stories.
ClusteredBy(r) ==
  UNION {Range(route[r].out.clusteredArticleIds[k].val) :
           k \in 1..Len(route[r].out.clusteredArticleIds)}

SimilarEnough(a, b) ==
  LET similarity == calculateSimilarity(a, b)
  IN similarity.num >= config.similarityThreshold * similarity.den

\* C28: in every story aggregate returned, the first article is the seed,
\* and every other member reaches the similarity threshold with the seed
\* and has a sourceId different from the seed's.
C28_MembersMatchTheSeed ==
  Aggregated =>
     \A s \in 1..Len(result) :
        \A m \in 2..Len(result[s].articles) :
           /\ SimilarEnough(result[s].articles[1], result[s].articles[m])
           /\ result[s].articles[m].sourceId # result[s].articles[1].sourceId

\* A story whose second and third member come from one source and do not
\* reach the threshold with one another.
C28_Witness ==
  /\ Aggregated
  /\ \E s \in 1..Len(result) :
       /\ Len(result[s].articles) >= 3
       /\ result[s].articles[2].sourceId = result[s].articles[3].sourceId
       /\ ~SimilarEnough(result[s].articles[2], result[s].articles[3])

\* ------------------------------------------------------------------------
\* analyzeCoverage: members of unknown sources
\* ------------------------------------------------------------------------

\* The members whose source the registry knows, in order.
KnownMembers ==
  FilterSeq(articles, {a \in Range(articles) : a.sourceId \in DOMAIN Registry})

\* The sourceIds of the members that the registry does not know.
UnknownSources ==
  {articles[m].sourceId : m \in 1..Len(articles)} \ DOMAIN Registry

RequestsFor(storyId) ==
  {k \in 1..Len(requests) : requests[k].storyId = storyId}

\* C30: for every story at most one request is issued, whatever the
\* interleaving of the calls; a call made while the story has an entry
\* issues no request; getOrFetchSummary returns the promise of the entry of
\* the story; and an entry that is 'ready' or 'error' never changes again.
C30_OneRequestPerStory ==
  /\ [](mode = "prefetch" =>
          /\ \A storyId \in StoryIds :
               /\ Cardinality(RequestsFor(storyId)) <= 1
               /\ prefetchCache[storyId] # None =>
                    RequestsFor(storyId) = {prefetchCache[storyId].promise}
          /\ \A c \in 1..Len(calls) :
               (calls[c].fn = "getOrFetchSummary" /\ calls[c].pc = "done") =>
                  /\ prefetchCache[calls[c].storyId] # None
                  /\ calls[c].returned = prefetchCache[calls[c].storyId].promise)
  /\ [][mode = "prefetch" =>
          \A storyId \in StoryIds :
             prefetchCache[storyId] # None =>
                /\ RequestsFor(storyId)' = RequestsFor(storyId)
                /\ prefetchCache'[storyId] # None
                /\ prefetchCache'[storyId].promise = prefetchCache[storyId].promise
                /\ prefetchCache[storyId].status \in {"ready", "error"} =>
                     prefetchCache'[storyId] = prefetchCache[storyId]]_vars

\* Two calls for one story were made while its entry was already there, one
\* of them getOrFetchSummary; the entry is 'ready', and there is one
\* request.
C30_Witness ==
  /\ mode = "prefetch"
  /\ \E storyId \in StoryIds :
       /\ prefetchCache[storyId] # None
       /\ prefetchCache[storyId].status = "ready"
       /\ Cardinality(RequestsFor(storyId)) = 1
       /\ \E c1, c2 \in 1..Len(calls) :
            /\ c1 # c2
            /\ calls[c1].storyId = storyId /\ calls[c1].entry = 0
            /\ calls[c2].storyId = storyId /\ calls[c2].entry = 0
            /\ calls[c1].fn = "getOrFetchSummary"
            /\ calls[c1].pc = "done"
            /\ calls[c1].returned = prefetchCache[storyId].promise

====
